---- MODULE Spec2Model ----
(***************************************************************************)
(* Retail ETL pipeline: the pandera quality gates (validate_sales,         *)
(* validate_products, validate_sales_clean), the transform                 *)
(* (transform_sales_and_products) and the Airflow DAG that chains them.    *)
(*                                                                         *)
(* Representation.                                                         *)
(*   cell      an optional value: <<>> is null (NaN / None / NaT),         *)
(*             <<v>> is the value v.                                       *)
(*   batch     a DataFrame: columns (ordered headers), dtypes (physical    *)
(*             dtype per header), index (row labels) and rows (one         *)
(*             function header -> cell per row), index and rows parallel.  *)
(*   money     price is an integer amount; discount and revenue are in     *)
(*             units of 1/DiscOne, so the float 1.0 is DiscOne and         *)
(*             revenue = qty * price * (DiscOne - discount).               *)
(***************************************************************************)
EXTENDS Integers, Sequences, FiniteSets, TLC

VARIABLES
    hPc, hCallee, hArgs, hRet,      \* one call of a validator or of the transform
    raw,                            \* the two raw objects in S3: [sales, products]
    pandas_downcasts,               \* the installed pandas: see business_flags
    tstate, tries, xcom,            \* per task: state, attempts made, return value
    s3_processed,                   \* the published sales_clean.csv, or null
    writes,                         \* the frames write_sales_clean_csv_to_s3 was called with
    transform_calls,                \* how many times the transform task ran
    snowflake_cfg,                  \* <<config["snowflake"]>> once a task has looked at it
    sales_clean_table,              \* the rows of the Snowflake table SALES_CLEAN
    load_calls                      \* how many times the Snowflake load was called

hvars == <<hPc, hCallee, hArgs, hRet>>
svars == <<snowflake_cfg, sales_clean_table, load_calls>>
dvars == <<raw, pandas_downcasts, tstate, tries, xcom, s3_processed, writes, transform_calls,
           snowflake_cfg, sales_clean_table, load_calls>>
vars == <<hPc, hCallee, hArgs, hRet, raw, pandas_downcasts, tstate, tries, xcom,
          s3_processed, writes, transform_calls, snowflake_cfg, sales_clean_table,
          load_calls>>

(* ------------------------------ bounds -------------------------------- *)
MaxRows == 2
MaxProducts == 2
DiscOne == 2
MaxLoads == 2

(* ------------------------------ cells --------------------------------- *)
NULL == <<>>
Some(v) == <<v>>
IsNull(c) == c = <<>>
Val(c) == c[1]

Range(s) == {s[i] : i \in 1..Len(s)}
SeqsUpTo(S, n) == UNION {[1..k -> S] : k \in 0..n}

RECURSIVE Positions(_, _)
Positions(flags, i) ==
    IF i > Len(flags) THEN <<>>
    ELSE (IF flags[i] THEN <<i>> ELSE <<>>) \o Positions(flags, i + 1)

(* ------------------------------ batches ------------------------------- *)
NoBatch == [columns |-> <<>>, dtypes |-> <<>>, index |-> <<>>, rows |-> <<>>]

(* DataFrame.empty: any axis of length 0. *)
Empty(df) == Len(df.rows) = 0 \/ Len(df.columns) = 0

HasColumn(df, h) == h \in Range(df.columns)

(* df.drop(index=labels): every row whose label is in labels goes, the    *)
(* columns and their dtypes stay as they were.                            *)
(* df.drop that hands the kept rows back last row first. *)
DropIndex_Reversed(df, labels) ==
    LET keep == Positions([i \in 1..Len(df.rows) |-> df.index[i] \notin labels], 1)
    IN [df EXCEPT !.index = [k \in 1..Len(keep) |-> df.index[keep[Len(keep) + 1 - k]]],
                  !.rows  = [k \in 1..Len(keep) |-> df.rows[keep[Len(keep) + 1 - k]]]]

DropIndex(df, labels) ==
    LET keep == Positions([i \in 1..Len(df.rows) |-> df.index[i] \notin labels], 1)
    IN [df EXCEPT !.index = [k \in 1..Len(keep) |-> df.index[keep[k]]],
                  !.rows  = [k \in 1..Len(keep) |-> df.rows[keep[k]]]]

(* ------------------------------ schemas ------------------------------- *)
NoCheck == [kind |-> "none", lo |-> 0, hi |-> 0]
CheckGt(n) == [kind |-> "greater_than", lo |-> n, hi |-> n]
CheckBetween(a, b) == [kind |-> "in_range", lo |-> a, hi |-> b]

Column(name, dtype, check, nullable) ==
    [name |-> name, dtype |-> dtype, check |-> check, nullable |-> nullable]

(* sales_schema without the range check on discount. *)
sales_schema_DiscountUnchecked ==
    [columns |-> <<
        Column("sales_id", "int64", NoCheck, FALSE),
        Column("product_id", "int64", NoCheck, FALSE),
        Column("order_status", "object", NoCheck, FALSE),
        Column("qty", "int64", CheckGt(0), FALSE),
        Column("price", "float64", NoCheck, FALSE),
        Column("discount", "float64", NoCheck, TRUE),
        Column("region", "object", NoCheck, TRUE),
        Column("time_stamp", "object", NoCheck, FALSE) >>,
     strict |-> FALSE]

sales_schema ==
    [columns |-> <<
        Column("sales_id", "int64", NoCheck, FALSE),
        Column("product_id", "int64", NoCheck, FALSE),
        Column("order_status", "object", NoCheck, FALSE),
        Column("qty", "int64", CheckGt(0), FALSE),
        Column("price", "float64", NoCheck, FALSE),
        Column("discount", "float64", CheckBetween(0, DiscOne), TRUE),
        Column("region", "object", NoCheck, TRUE),
        Column("time_stamp", "object", NoCheck, FALSE) >>,
     strict |-> FALSE]

products_schema ==
    [columns |-> <<
        Column("product_id", "int64", NoCheck, FALSE),
        Column("category", "object", NoCheck, FALSE),
        Column("brand", "object", NoCheck, FALSE),
        Column("rating", "float64", CheckBetween(0, 5), TRUE),
        Column("in_stock", "bool", NoCheck, TRUE) >>,
     strict |-> FALSE]

(* sales_clean_schema with category and brand nullable. *)
sales_clean_schema_NullableDimensions ==
    [columns |-> <<
        Column("sales_id", "int64", NoCheck, FALSE),
        Column("product_id", "int64", NoCheck, FALSE),
        Column("category", "object", NoCheck, TRUE),
        Column("brand", "object", NoCheck, TRUE),
        Column("region", "object", NoCheck, FALSE),
        Column("qty", "int64", CheckGt(0), FALSE),
        Column("price", "float64", NoCheck, FALSE),
        Column("discount", "float64", CheckBetween(0, DiscOne), FALSE),
        Column("revenue", "float64", NoCheck, FALSE),
        Column("rating", "float64", NoCheck, TRUE),
        Column("is_in_stock", "bool", NoCheck, FALSE),
        Column("is_discounted", "bool", NoCheck, FALSE),
        Column("sale_date", "object", NoCheck, FALSE),
        Column("sale_hour", "int64", CheckBetween(0, 23), FALSE) >>,
     strict |-> TRUE]

sales_clean_schema ==
    [columns |-> <<
        Column("sales_id", "int64", NoCheck, FALSE),
        Column("product_id", "int64", NoCheck, FALSE),
        Column("category", "object", NoCheck, FALSE),
        Column("brand", "object", NoCheck, FALSE),
        Column("region", "object", NoCheck, FALSE),
        Column("qty", "int64", CheckGt(0), FALSE),
        Column("price", "float64", NoCheck, FALSE),
        Column("discount", "float64", CheckBetween(0, DiscOne), FALSE),
        Column("revenue", "float64", NoCheck, FALSE),
        Column("rating", "float64", NoCheck, TRUE),
        Column("is_in_stock", "bool", NoCheck, FALSE),
        Column("is_discounted", "bool", NoCheck, FALSE),
        Column("sale_date", "object", NoCheck, FALSE),
        Column("sale_hour", "int64", CheckBetween(0, 23), FALSE) >>,
     strict |-> TRUE]

SchemaNames(schema) == {schema.columns[i].name : i \in 1..Len(schema.columns)}

(* ---------------------- pandera: schema.validate ---------------------- *)
(* Check.between with its upper bound excluded. *)
CheckHolds_UpperExcluded(check, v) ==
    CASE check.kind = "greater_than" -> v > check.lo
      [] check.kind = "in_range" -> check.lo <= v /\ v < check.hi
      [] OTHER -> TRUE

CheckHolds(check, v) ==
    CASE check.kind = "greater_than" -> v > check.lo
      [] check.kind = "in_range" -> check.lo <= v /\ v <= check.hi
      [] OTHER -> TRUE

(* One entry of SchemaErrors.failure_cases.  index is null for a failure  *)
(* of the column as a whole (absent column, column not in a strict        *)
(* schema, physical dtype differs), and the row label otherwise.          *)
Failure(index, column, check) == [index |-> index, column |-> column, check |-> check]

(* ColumnFailures with the nullable=False check left out. *)
ColumnFailures_NoNullCheck(col, df) ==
    IF ~HasColumn(df, col.name)
    THEN {Failure(NULL, col.name, "column_in_dataframe")}
    ELSE
      (IF df.dtypes[col.name] = col.dtype THEN {}
       ELSE {Failure(NULL, col.name, "dtype")})
      \cup
      {Failure(Some(df.index[i]), col.name, col.check.kind) :
          i \in {j \in 1..Len(df.rows) :
                    /\ ~IsNull(df.rows[j][col.name])
                    /\ ~CheckHolds(col.check, Val(df.rows[j][col.name]))}}

(* ColumnFailures with nullable=True ignored: every null is a failure. *)
ColumnFailures_NeverNullable(col, df) ==
    IF ~HasColumn(df, col.name)
    THEN {Failure(NULL, col.name, "column_in_dataframe")}
    ELSE
      {Failure(Some(df.index[i]), col.name, "not_nullable") :
          i \in {j \in 1..Len(df.rows) : IsNull(df.rows[j][col.name])}}
      \cup
      (IF df.dtypes[col.name] = col.dtype THEN {}
       ELSE {Failure(NULL, col.name, "dtype")})
      \cup
      {Failure(Some(df.index[i]), col.name, col.check.kind) :
          i \in {j \in 1..Len(df.rows) :
                    /\ ~IsNull(df.rows[j][col.name])
                    /\ ~CheckHolds(col.check, Val(df.rows[j][col.name]))}}

ColumnFailures(col, df) ==
    IF ~HasColumn(df, col.name)
    THEN {Failure(NULL, col.name, "column_in_dataframe")}
    ELSE
      (IF col.nullable THEN {}
       ELSE {Failure(Some(df.index[i]), col.name, "not_nullable") :
                i \in {j \in 1..Len(df.rows) : IsNull(df.rows[j][col.name])}})
      \cup
      (IF df.dtypes[col.name] = col.dtype THEN {}
       ELSE {Failure(NULL, col.name, "dtype")})
      \cup
      {Failure(Some(df.index[i]), col.name, col.check.kind) :
          i \in {j \in 1..Len(df.rows) :
                    /\ ~IsNull(df.rows[j][col.name])
                    /\ ~CheckHolds(col.check, Val(df.rows[j][col.name]))}}

(* FailureCases with strict=True ignored: a column outside the schema is *)
(* no failure.                                                            *)
FailureCases_NotStrict(schema, df) ==
    UNION {ColumnFailures(schema.columns[i], df) : i \in 1..Len(schema.columns)}

(* Every failure of every column, as schema.validate(df, lazy=True)       *)
(* collects them before raising.                                          *)
FailureCases(schema, df) ==
    (IF schema.strict
     THEN {Failure(NULL, h, "column_in_schema") : h \in Range(df.columns) \ SchemaNames(schema)}
     ELSE {})
    \cup
    UNION {ColumnFailures(schema.columns[i], df) : i \in 1..Len(schema.columns)}

(* What schema.validate raises: nothing when no failure is found;         *)
(* SchemaErrors (all failures) with lazy=True; SchemaError (the first     *)
(* failure) without it.                                                   *)
SchemaValidate(schema, df, lazy) ==
    LET failed == FailureCases(schema, df)
    IN IF failed = {} THEN [exc |-> "none", failure_cases |-> {}]
       ELSE IF lazy THEN [exc |-> "SchemaErrors", failure_cases |-> failed]
       ELSE [exc |-> "SchemaError", failure_cases |-> failed]

(* `except SchemaErrors`: the handler takes the exception of that class     *)
(* only; pandera's SchemaError and SchemaErrors are unrelated classes.      *)
ExceptCatches(handler, exc) == exc = handler

(* failed["index"].dropna().unique() *)
FailedIndices(failed) == {Val(e.index) : e \in {x \in failed : ~IsNull(x.index)}}

Return(df, count) == [raised |-> "none", df |-> df, count |-> count]
Raise(exc) == [raised |-> exc, df |-> NoBatch, count |-> 0]

(* --------------------------- input validators ------------------------- *)
(* validate_sales returning the number of rows dropped as its count. *)
validate_sales_CountsRows(df) ==
    LET first == SchemaValidate(sales_schema, df, TRUE)
    IN IF first.exc = "none" THEN Return(df, 0)
       ELSE
         LET failed_indices == FailedIndices(first.failure_cases)
             clean_df == IF Cardinality(failed_indices) > 0
                         THEN DropIndex(df, failed_indices)
                         ELSE df
             second == SchemaValidate(sales_schema, clean_df, FALSE)
         IN IF second.exc = "none" \/ ExceptCatches("SchemaErrors", second.exc)
            THEN Return(clean_df, Cardinality(failed_indices))
            ELSE Raise(second.exc)

validate_sales(df) ==
    LET first == SchemaValidate(sales_schema, df, TRUE)
    IN IF first.exc = "none" THEN Return(df, 0)
       ELSE IF ~ExceptCatches("SchemaErrors", first.exc) THEN Raise(first.exc)
       ELSE
         LET failed == first.failure_cases
             invalid_count == Cardinality(failed)
             failed_indices == FailedIndices(failed)
             clean_df == IF Cardinality(failed) > 0 /\ Cardinality(failed_indices) > 0
                         THEN DropIndex(df, failed_indices)
                         ELSE df
             second == SchemaValidate(sales_schema, clean_df, FALSE)
         IN IF second.exc = "none" \/ ExceptCatches("SchemaErrors", second.exc)
            THEN Return(clean_df, invalid_count)
            ELSE Raise(second.exc)

validate_products(df) ==
    LET first == SchemaValidate(products_schema, df, TRUE)
    IN IF first.exc = "none" THEN Return(df, 0)
       ELSE IF ~ExceptCatches("SchemaErrors", first.exc) THEN Raise(first.exc)
       ELSE
         LET failed == first.failure_cases
             invalid_count == Cardinality(failed)
             failed_indices == FailedIndices(failed)
             clean_df == IF Cardinality(failed) > 0 /\ Cardinality(failed_indices) > 0
                         THEN DropIndex(df, failed_indices)
                         ELSE df
             second == SchemaValidate(products_schema, clean_df, FALSE)
         IN IF second.exc = "none" \/ ExceptCatches("SchemaErrors", second.exc)
            THEN Return(clean_df, invalid_count)
            ELSE Raise(second.exc)

(* --------------------------- output validator ------------------------- *)
validate_sales_clean(df) ==
    LET first == SchemaValidate(sales_clean_schema, df, TRUE)
    IN IF first.exc = "none" THEN Return(df, 0)
       ELSE IF ~ExceptCatches("SchemaErrors", first.exc) THEN Raise(first.exc)
       ELSE
         LET failed == first.failure_cases
             invalid_count == Cardinality(failed)
             failed_indices == FailedIndices(failed)
             clean_df == IF Cardinality(failed) > 0 /\ Cardinality(failed_indices) > 0
                         THEN DropIndex(df, failed_indices)
                         ELSE df
             second == SchemaValidate(sales_clean_schema, clean_df, FALSE)
         IN IF Empty(clean_df) THEN Raise("ValueError")
            ELSE IF second.exc = "none" \/ ExceptCatches("SchemaErrors", second.exc)
            THEN Return(clean_df, invalid_count)
            ELSE Raise(second.exc)

(* ------------------------- input batches (bounded) -------------------- *)
SalesColumns ==
    <<"sales_id", "product_id", "order_status", "qty", "price", "discount",
      "region", "time_stamp">>
ProductColumns == <<"product_id", "category", "brand", "rating", "in_stock">>
final_columns ==
    <<"sales_id", "product_id", "category", "brand", "region", "qty", "price",
      "discount", "revenue", "rating", "is_in_stock", "is_discounted",
      "sale_date", "sale_hour">>

(* The dtype pandas gives a freshly built column: an integer column that  *)
(* holds a null is float64, a boolean column that holds a null is object. *)
InferDtype(base, cells) ==
    IF \E i \in 1..Len(cells) : IsNull(cells[i])
    THEN (CASE base = "int64" -> "float64" [] base = "bool" -> "object" [] OTHER -> base)
    ELSE base

SchemaDtype(schema, h) ==
    (CHOOSE c \in Range(schema.columns) : c.name = h).dtype

(* A frame as pd.DataFrame / read_csv / read_json builds it from rows:    *)
(* RangeIndex labels 0..n-1, dtypes inferred per column.                  *)
Frame(schema, columns, rows) ==
    [columns |-> columns,
     dtypes  |-> [h \in Range(columns) |->
                    InferDtype(SchemaDtype(schema, h), [i \in 1..Len(rows) |-> rows[i][h]])],
     index   |-> [i \in 1..Len(rows) |-> i - 1],
     rows    |-> rows]

(* A header-only file: no rows, every column of dtype object. *)
UntypedEmptyFrame(columns) ==
    [columns |-> columns, dtypes |-> [h \in Range(columns) |-> "object"],
     index |-> <<>>, rows |-> <<>>]

(* base with at most two of the deviations devs applied, each a pair      *)
(* <<header, cell>>, no two on the same header.                           *)
Deviate(base, S) ==
    [h \in DOMAIN base |->
        IF \E d \in S : d[1] = h THEN (CHOOSE d \in S : d[1] = h)[2] ELSE base[h]]

Variants(base, devs) ==
    {Deviate(base, S) : S \in {T \in SUBSET devs :
        /\ Cardinality(T) <= 2
        /\ \A d, e \in T : d[1] = e[1] => d = e}}

BaseSalesRow ==
    [sales_id |-> Some(1), product_id |-> Some(1), order_status |-> Some("Completed"),
     qty |-> Some(2), price |-> Some(3), discount |-> Some(0),
     region |-> Some("EU"), time_stamp |-> Some("2026-01-01 10:30")]

BaseProductRow ==
    [product_id |-> Some(1), category |-> Some("A"), brand |-> Some("X"),
     rating |-> Some(4), in_stock |-> Some(TRUE)]

BaseCleanRow ==
    [sales_id |-> Some(1), product_id |-> Some(1), category |-> Some("A"),
     brand |-> Some("X"), region |-> Some("EU"), qty |-> Some(2), price |-> Some(3),
     discount |-> Some(0), revenue |-> Some(6 * DiscOne), rating |-> Some(4),
     is_in_stock |-> Some(TRUE), is_discounted |-> Some(FALSE),
     sale_date |-> Some("2026-01-01"), sale_hour |-> Some(10)]

(* sales_id is the row's position in the file. *)
Numbered(rows) == [i \in 1..Len(rows) |-> [rows[i] EXCEPT !.sales_id = Some(i)]]

GateSalesRows ==
    Variants(BaseSalesRow,
        {<<"order_status", NULL>>, <<"qty", NULL>>, <<"qty", Some(0)>>,
         <<"price", Some(-1)>>, <<"discount", NULL>>, <<"discount", Some(DiscOne + 1)>>,
         <<"region", NULL>>})

GateProductRows ==
    Variants(BaseProductRow,
        {<<"product_id", NULL>>, <<"category", NULL>>, <<"rating", NULL>>,
         <<"rating", Some(6)>>, <<"in_stock", NULL>>})

GateCleanRows ==
    Variants(BaseCleanRow,
        {<<"category", NULL>>, <<"qty", Some(0)>>, <<"price", Some(-1)>>,
         <<"revenue", Some(0)>>, <<"discount", Some(DiscOne + 1)>>,
         <<"discount", Some(DiscOne)>>, <<"sale_hour", Some(25)>>,
         <<"sale_hour", Some(23)>>, <<"rating", NULL>>})
    \cup {Deviate(BaseCleanRow, {d}) : d \in {<<"sale_hour", Some(0)>>, <<"discount", Some(-1)>>}}

GateSalesBatches ==
    {Frame(sales_schema, SalesColumns, Numbered(s)) : s \in SeqsUpTo(GateSalesRows, MaxRows)}
    \cup {UntypedEmptyFrame(SalesColumns)}

GateProductBatches ==
    {Frame(products_schema, ProductColumns, s) : s \in SeqsUpTo(GateProductRows, MaxProducts)}
    \cup {UntypedEmptyFrame(ProductColumns)}

GateCleanBatches ==
    {Frame(sales_clean_schema, final_columns, Numbered(s)) : s \in SeqsUpTo(GateCleanRows, MaxRows)}
    \cup {UntypedEmptyFrame(final_columns)}

(* ------------------------ pandas string methods ----------------------- *)
(* str.strip, str.lower, str.replace(" ", "_") and str.upper, on the      *)
(* headers and region values the batches here are built from; a string    *)
(* outside a table is one the method leaves as it is.                     *)
str_strip(s) ==
    CASE s = " qty" -> "qty"
      [] s = "Order Status " -> "Order Status"
      [] OTHER -> s

str_lower(s) ==
    CASE s = "Order Status" -> "order status"
      [] s = "Order Status " -> "order status "
      [] s = "Time_Stamp" -> "time_stamp"
      [] s = "Product_ID" -> "product_id"
      [] s = "Region" -> "region"
      [] OTHER -> s

str_replace_space(s) ==
    CASE s = "order status" -> "order_status"
      [] s = "order status " -> "order_status_"
      [] s = " qty" -> "_qty"
      [] OTHER -> s

str_upper(s) ==
    CASE s = "us" -> "US"
      [] s = "eu" -> "EU"
      [] s = "Apac" -> "APAC"
      [] OTHER -> s

(* pd.to_datetime(..., errors="coerce", format="mixed") on one value:     *)
(* the parsed date and hour, or null (NaT) for text that is no timestamp. *)
to_datetime(s) ==
    CASE s = "2026-01-01 10:30" -> Some([date |-> "2026-01-01", hour |-> 10])
      [] s = "2026-01-02" -> Some([date |-> "2026-01-02", hour |-> 0])
      [] s = "01/04/2026 23:15" -> Some([date |-> "2026-01-04", hour |-> 23])
      [] OTHER -> NULL

(* The name merge() gives a column both frames have, other than the key. *)
with_suffix(h, side) ==
    CASE h = "region" /\ side = "x" -> "region_x"
      [] h = "region" /\ side = "y" -> "region_y"
      [] h = "category" /\ side = "x" -> "category_x"
      [] h = "category" /\ side = "y" -> "category_y"
      [] h = "notes" /\ side = "x" -> "notes_x"
      [] h = "notes" /\ side = "y" -> "notes_y"
      [] side = "x" -> "overlap_x"
      [] OTHER -> "overlap_y"

(* ----------------------------- frame algebra -------------------------- *)
(* df.columns = f(df.columns): same cells under the new headers. *)
RenameColumns(df, f(_)) ==
    LET n == Len(df.columns)
        new == [i \in 1..n |-> f(df.columns[i])]
        old(h) == df.columns[CHOOSE i \in 1..n : new[i] = h]
    IN [columns |-> new,
        dtypes  |-> [h \in Range(new) |-> df.dtypes[old(h)]],
        index   |-> df.index,
        rows    |-> [k \in 1..Len(df.rows) |-> [h \in Range(new) |-> df.rows[k][old(h)]]]]

(* df[mask]: the rows the mask keeps, under their labels, in their order. *)
FilterRows(df, keep(_)) ==
    LET pos == Positions([i \in 1..Len(df.rows) |-> keep(df.rows[i])], 1)
    IN [df EXCEPT !.index = [k \in 1..Len(pos) |-> df.index[pos[k]]],
                  !.rows  = [k \in 1..Len(pos) |-> df.rows[pos[k]]]]

(* df[h] = values: the column is replaced, or appended when it is new. *)
SetColumn(df, h, dtype, value(_)) ==
    LET cols == IF HasColumn(df, h) THEN df.columns ELSE Append(df.columns, h)
    IN [columns |-> cols,
        dtypes  |-> [c \in Range(cols) |-> IF c = h THEN dtype ELSE df.dtypes[c]],
        index   |-> df.index,
        rows    |-> [k \in 1..Len(df.rows) |->
                       [c \in Range(cols) |-> IF c = h THEN value(df.rows[k]) ELSE df.rows[k][c]]]]

AnyNull(df, h) == \E k \in 1..Len(df.rows) : IsNull(df.rows[k][h])

RECURSIVE Flatten(_)
Flatten(ss) == IF ss = <<>> THEN <<>> ELSE Head(ss) \o Flatten(Tail(ss))

(* An inner join: a left row with no match is dropped. *)
merge_left_Inner(left, right, key) ==
    LET overlap == (Range(left.columns) \cap Range(right.columns)) \ {key}
        NotKey(h) == h # key
        rcols == SelectSeq(right.columns, NotKey)
        lname(h) == IF h \in overlap THEN with_suffix(h, "x") ELSE h
        rname(h) == IF h \in overlap THEN with_suffix(h, "y") ELSE h
        lnew == [i \in 1..Len(left.columns) |-> lname(left.columns[i])]
        rnew == [i \in 1..Len(rcols) |-> rname(rcols[i])]
        lold(h) == left.columns[CHOOSE i \in 1..Len(lnew) : lnew[i] = h]
        rold(h) == rcols[CHOOSE i \in 1..Len(rnew) : rnew[i] = h]
        matches(i) == Positions([j \in 1..Len(right.rows) |->
                                    right.rows[j][key] = left.rows[i][key]], 1)
        joined(i, j) == [h \in Range(lnew) \cup Range(rnew) |->
                            IF h \in Range(lnew) THEN left.rows[i][lold(h)]
                            ELSE IF j = 0 THEN NULL ELSE right.rows[j][rold(h)]]
        block(i) == IF matches(i) = <<>> THEN <<>>
                    ELSE [k \in 1..Len(matches(i)) |-> joined(i, matches(i)[k])]
        rows == Flatten([i \in 1..Len(left.rows) |-> block(i)])
        unmatched == \E i \in 1..Len(left.rows) : matches(i) = <<>>
        widened(d) == CASE d = "int64" -> "float64" [] d = "bool" -> "object" [] OTHER -> d
    IN [columns |-> lnew \o rnew,
        dtypes  |-> [h \in Range(lnew) \cup Range(rnew) |->
                        IF h \in Range(lnew) THEN left.dtypes[lold(h)]
                        ELSE IF unmatched THEN widened(right.dtypes[rold(h)])
                        ELSE right.dtypes[rold(h)]],
        index   |-> [k \in 1..Len(rows) |-> k - 1],
        rows    |-> rows]

(* A join that takes the first matching right row only. *)
merge_left_FirstMatch(left, right, key) ==
    LET overlap == (Range(left.columns) \cap Range(right.columns)) \ {key}
        NotKey(h) == h # key
        rcols == SelectSeq(right.columns, NotKey)
        lname(h) == IF h \in overlap THEN with_suffix(h, "x") ELSE h
        rname(h) == IF h \in overlap THEN with_suffix(h, "y") ELSE h
        lnew == [i \in 1..Len(left.columns) |-> lname(left.columns[i])]
        rnew == [i \in 1..Len(rcols) |-> rname(rcols[i])]
        lold(h) == left.columns[CHOOSE i \in 1..Len(lnew) : lnew[i] = h]
        rold(h) == rcols[CHOOSE i \in 1..Len(rnew) : rnew[i] = h]
        matches(i) == Positions([j \in 1..Len(right.rows) |->
                                    right.rows[j][key] = left.rows[i][key]], 1)
        joined(i, j) == [h \in Range(lnew) \cup Range(rnew) |->
                            IF h \in Range(lnew) THEN left.rows[i][lold(h)]
                            ELSE IF j = 0 THEN NULL ELSE right.rows[j][rold(h)]]
        block(i) == IF matches(i) = <<>> THEN << joined(i, 0) >>
                    ELSE << joined(i, matches(i)[1]) >>
        rows == Flatten([i \in 1..Len(left.rows) |-> block(i)])
        unmatched == \E i \in 1..Len(left.rows) : matches(i) = <<>>
        widened(d) == CASE d = "int64" -> "float64" [] d = "bool" -> "object" [] OTHER -> d
    IN [columns |-> lnew \o rnew,
        dtypes  |-> [h \in Range(lnew) \cup Range(rnew) |->
                        IF h \in Range(lnew) THEN left.dtypes[lold(h)]
                        ELSE IF unmatched THEN widened(right.dtypes[rold(h)])
                        ELSE right.dtypes[rold(h)]],
        index   |-> [k \in 1..Len(rows) |-> k - 1],
        rows    |-> rows]

(* left.merge(right, on=key, how="left"): one record per left row and    *)
(* matching right row, in left order then right order; a left row with no *)
(* match is kept once with nulls in the right columns, which turns an     *)
(* int64 column into float64 and a bool column into object.  A header     *)
(* both sides have, other than the key, is suffixed _x / _y.              *)
merge_left(left, right, key) ==
    LET overlap == (Range(left.columns) \cap Range(right.columns)) \ {key}
        NotKey(h) == h # key
        rcols == SelectSeq(right.columns, NotKey)
        lname(h) == IF h \in overlap THEN with_suffix(h, "x") ELSE h
        rname(h) == IF h \in overlap THEN with_suffix(h, "y") ELSE h
        lnew == [i \in 1..Len(left.columns) |-> lname(left.columns[i])]
        rnew == [i \in 1..Len(rcols) |-> rname(rcols[i])]
        lold(h) == left.columns[CHOOSE i \in 1..Len(lnew) : lnew[i] = h]
        rold(h) == rcols[CHOOSE i \in 1..Len(rnew) : rnew[i] = h]
        matches(i) == Positions([j \in 1..Len(right.rows) |->
                                    right.rows[j][key] = left.rows[i][key]], 1)
        joined(i, j) == [h \in Range(lnew) \cup Range(rnew) |->
                            IF h \in Range(lnew) THEN left.rows[i][lold(h)]
                            ELSE IF j = 0 THEN NULL ELSE right.rows[j][rold(h)]]
        block(i) == IF matches(i) = <<>> THEN << joined(i, 0) >>
                    ELSE [k \in 1..Len(matches(i)) |-> joined(i, matches(i)[k])]
        rows == Flatten([i \in 1..Len(left.rows) |-> block(i)])
        unmatched == \E i \in 1..Len(left.rows) : matches(i) = <<>>
        widened(d) == CASE d = "int64" -> "float64" [] d = "bool" -> "object" [] OTHER -> d
    IN [columns |-> lnew \o rnew,
        dtypes  |-> [h \in Range(lnew) \cup Range(rnew) |->
                        IF h \in Range(lnew) THEN left.dtypes[lold(h)]
                        ELSE IF unmatched THEN widened(right.dtypes[rold(h)])
                        ELSE right.dtypes[rold(h)]],
        index   |-> [k \in 1..Len(rows) |-> k - 1],
        rows    |-> rows]

(* df[columns]: the named columns, in the order named. *)
Project(df, columns) ==
    [columns |-> columns,
     dtypes  |-> [h \in Range(columns) |-> df.dtypes[h]],
     index   |-> df.index,
     rows    |-> [k \in 1..Len(df.rows) |-> [h \in Range(columns) |-> df.rows[k][h]]]]

(* ------------------------------ transform ----------------------------- *)
NormalizeHeader(h) == str_replace_space(str_lower(str_strip(h)))

(* What the transform gives its caller: the enriched frame or the         *)
(* exception, and the caller's own sales frame as the call leaves it      *)
(* (line 17 assigns the normalized headers to it in place).               *)
TReturn(df, caller_sales) == [raised |-> "none", df |-> df, sales_df |-> caller_sales]
TRaise(exc, caller_sales) == [raised |-> exc, df |-> NoBatch, sales_df |-> caller_sales]

(* 1. sales_df[sales_df["order_status"] == "Completed"] *)
completed_orders_AnyCase(df) ==
    FilterRows(df, LAMBDA r : r["order_status"] \in {Some("Completed"), Some("completed")})

completed_orders(df) ==
    FilterRows(df, LAMBDA r : r["order_status"] = Some("Completed"))

(* 2. region: fillna("UNKNOWN").str.upper() *)
normalize_region_NoUpper(df) ==
    SetColumn(df, "region", "object",
        LAMBDA r : IF IsNull(r["region"]) THEN Some("UNKNOWN") ELSE r["region"])

normalize_region(df) ==
    SetColumn(df, "region", "object",
        LAMBDA r : Some(str_upper(IF IsNull(r["region"]) THEN "UNKNOWN"
                                  ELSE Val(r["region"]))))

(* 3. timestamp = to_datetime(time_stamp); sale_date and sale_hour from   *)
(* it.  dt.hour is int32, or float64 when some timestamp is NaT.          *)
parse_timestamps(df) ==
    LET parsed == SetColumn(df, "timestamp", "datetime64[ns]",
                LAMBDA r : IF IsNull(r["time_stamp"]) THEN NULL
                           ELSE to_datetime(Val(r["time_stamp"])))
        dated == SetColumn(parsed, "sale_date", "object",
                LAMBDA r : IF IsNull(r["timestamp"]) THEN NULL
                           ELSE Some(Val(r["timestamp"]).date))
    IN SetColumn(dated, "sale_hour",
                IF AnyNull(parsed, "timestamp") THEN "float64" ELSE "int32",
                LAMBDA r : IF IsNull(r["timestamp"]) THEN NULL
                           ELSE Some(Val(r["timestamp"]).hour))

(* 4. discount = discount.fillna(0); revenue = qty * price * (1 - discount) *)
compute_revenue_IgnoresDiscount(df) ==
    LET filled == SetColumn(df, "discount", df.dtypes["discount"],
                LAMBDA r : IF IsNull(r["discount"]) THEN Some(0) ELSE r["discount"])
    IN SetColumn(filled, "revenue", "float64",
                LAMBDA r : IF IsNull(r["qty"]) \/ IsNull(r["price"]) THEN NULL
                           ELSE Some(Val(r["qty"]) * Val(r["price"]) * DiscOne))

compute_revenue(df) ==
    LET filled == SetColumn(df, "discount", df.dtypes["discount"],
                LAMBDA r : IF IsNull(r["discount"]) THEN Some(0) ELSE r["discount"])
    IN SetColumn(filled, "revenue", "float64",
                LAMBDA r : IF IsNull(r["qty"]) \/ IsNull(r["price"]) THEN NULL
                           ELSE Some(Val(r["qty"]) * Val(r["price"])
                                        * (DiscOne - Val(r["discount"]))))

(* 4.5 sales_df[(price > 0) & (revenue > 0)]; a comparison with NaN is False *)
quality_filter_PriceOnly(df) ==
    FilterRows(df, LAMBDA r : ~IsNull(r["price"]) /\ Val(r["price"]) > 0)

quality_filter(df) ==
    FilterRows(df,
        LAMBDA r : /\ ~IsNull(r["price"]) /\ Val(r["price"]) > 0
                   /\ ~IsNull(r["revenue"]) /\ Val(r["revenue"]) > 0)

(* 6. is_discounted = discount > 0; is_in_stock = in_stock.fillna(False).  *)
(* fillna_downcasts: whether the installed pandas turns an object column  *)
(* that fillna() left holding only booleans into a bool column (pandas 2  *)
(* does, with a FutureWarning; later versions keep object).               *)
(* business_flags_NullInStock fills a missing in_stock with True.         *)
business_flags_NullInStock(df, fillna_downcasts) ==
    LET flagged == SetColumn(df, "is_discounted", "bool",
                LAMBDA r : Some(Val(r["discount"]) > 0))
    IN SetColumn(flagged, "is_in_stock",
                IF flagged.dtypes["in_stock"] = "object" /\ fillna_downcasts
                THEN "bool" ELSE flagged.dtypes["in_stock"],
                LAMBDA r : IF IsNull(r["in_stock"]) THEN Some(TRUE) ELSE r["in_stock"])

business_flags(df, fillna_downcasts) ==
    LET flagged == SetColumn(df, "is_discounted", "bool",
                LAMBDA r : Some(Val(r["discount"]) > 0))
    IN SetColumn(flagged, "is_in_stock",
                IF flagged.dtypes["in_stock"] = "object" /\ fillna_downcasts
                THEN "bool" ELSE flagged.dtypes["in_stock"],
                LAMBDA r : IF IsNull(r["in_stock"]) THEN Some(FALSE) ELSE r["in_stock"])

(* 7. sale_hour.astype("int64"): a NaN cannot be cast to an integer. *)
CastRaises_AnyFloat(df, h) == df.dtypes[h] = "float64"

CastRaises(df, h) == AnyNull(df, h)

transform_sales_and_products(sales_df, products_df, fillna_downcasts) ==
    LET normalized == RenameColumns(sales_df, NormalizeHeader)
        SalesNeeds == {"order_status", "region", "time_stamp", "discount", "qty",
                       "price", "product_id"}
    IN IF ~(SalesNeeds \subseteq Range(normalized.columns))
       THEN TRaise("KeyError", normalized)
       ELSE
       LET sound == quality_filter(compute_revenue(parse_timestamps(
                        normalize_region(completed_orders(normalized)))))
       IN IF ~HasColumn(products_df, "product_id")
          THEN TRaise("KeyError", normalized)
          ELSE
          LET enriched_df == merge_left(sound, products_df, "product_id")
          IN IF ~HasColumn(enriched_df, "discount") \/ ~HasColumn(enriched_df, "in_stock")
             THEN TRaise("KeyError", normalized)
             ELSE
             LET stocked == business_flags(enriched_df, fillna_downcasts)
             IN IF ~HasColumn(stocked, "sale_hour")
                THEN TRaise("KeyError", normalized)
                ELSE IF CastRaises(stocked, "sale_hour")
                THEN TRaise("IntCastingNaNError", normalized)
                ELSE
                LET cast == SetColumn(stocked, "sale_hour", "int64",
                                      LAMBDA r : r["sale_hour"])
                IN IF ~(Range(final_columns) \subseteq Range(cast.columns))
                   THEN TRaise("KeyError", normalized)
                   ELSE TReturn(Project(cast, final_columns), normalized)

(* --------------------- transform inputs (bounded) --------------------- *)
TransformSalesRows ==
    {BaseSalesRow,
     Deviate(BaseSalesRow, {<<"price", Some(-1)>>, <<"time_stamp", Some("not a date")>>})}
    \cup
    {Deviate(BaseSalesRow, {d}) : d \in
        {<<"order_status", Some("Pending")>>, <<"order_status", Some("completed")>>,
         <<"region", NULL>>, <<"region", Some("us")>>,
         <<"time_stamp", Some("not a date")>>, <<"time_stamp", Some("01/04/2026 23:15")>>,
         <<"discount", NULL>>, <<"discount", Some(1)>>, <<"discount", Some(DiscOne)>>,
         <<"discount", Some(DiscOne + 1)>>, <<"price", Some(-1)>>, <<"price", NULL>>,
         <<"product_id", Some(2)>>}}

TransformProductRows ==
    {BaseProductRow,
     [product_id |-> Some(2), category |-> Some("B"), brand |-> Some("Y"),
      rating |-> NULL, in_stock |-> Some(FALSE)],
     [product_id |-> Some(1), category |-> Some("C"), brand |-> Some("Z"),
      rating |-> Some(5), in_stock |-> NULL]}

TransformSalesBatches ==
    {Frame(sales_schema, SalesColumns, Numbered(s)) : s \in SeqsUpTo(TransformSalesRows, MaxRows)}

(* Dimension tables: no row twice, though a product_id may be. *)
TransformProductBatches ==
    {Frame(products_schema, ProductColumns, s) :
        s \in {t \in SeqsUpTo(TransformProductRows, MaxProducts) :
                  \A i, j \in 1..Len(t) : t[i] = t[j] => i = j}}

(* Upstream column drift: headers as the source systems write them,      *)
(* padded headers, additional columns, and a header-only sales file.      *)
RawHeader(h) ==
    CASE h = "order_status" -> "Order Status"
      [] h = "time_stamp" -> "Time_Stamp"
      [] h = "region" -> "Region"
      [] h = "product_id" -> "Product_ID"
      [] OTHER -> h

PaddedHeader(h) ==
    CASE h = "qty" -> " qty"
      [] h = "order_status" -> "Order Status "
      [] OTHER -> h

AddColumn(df, h, cell) == SetColumn(df, h, "object", LAMBDA r : cell)

OneSale == Frame(sales_schema, SalesColumns, <<BaseSalesRow>>)
OneProduct == Frame(products_schema, ProductColumns, <<BaseProductRow>>)

DriftSalesBatches ==
    {OneSale,
     RenameColumns(OneSale, RawHeader),
     RenameColumns(OneSale, PaddedHeader),
     AddColumn(OneSale, "notes", Some("n")),
     AddColumn(OneSale, "category", Some("K")),
     UntypedEmptyFrame(SalesColumns)}

DriftProductBatches ==
    {OneProduct,
     Frame(products_schema, ProductColumns, <<>>),
     RenameColumns(OneProduct, RawHeader),
     AddColumn(OneProduct, "notes", Some("m")),
     AddColumn(OneProduct, "region", Some("EU"))}

(* The calls of the transform that are examined. *)
(* Three-row batches with the middle row one that a gate or a filter     *)
(* takes out, and the rows around it on different products.               *)
SecondProductRow ==
    [product_id |-> Some(2), category |-> Some("B"), brand |-> Some("Y"),
     rating |-> NULL, in_stock |-> Some(FALSE)]

OrderSalesBatches ==
    {Frame(sales_schema, SalesColumns,
           Numbered(<<Deviate(BaseSalesRow, {<<"product_id", Some(2)>>}),
                      Deviate(BaseSalesRow, {d}),
                      BaseSalesRow>>)) :
        d \in {<<"discount", Some(DiscOne + 1)>>, <<"order_status", Some("Pending")>>,
               <<"product_id", Some(3)>>}}

OrderProductBatches ==
    {Frame(products_schema, ProductColumns, <<BaseProductRow, SecondProductRow>>),
     Frame(products_schema, ProductColumns,
           <<BaseProductRow,
             [product_id |-> Some(3), category |-> NULL, brand |-> Some("Z"),
              rating |-> Some(1), in_stock |-> Some(TRUE)],
             SecondProductRow>>)}

TransformCalls ==
    [sales_df : TransformSalesBatches, products_df : TransformProductBatches]
    \cup [sales_df : DriftSalesBatches, products_df : DriftProductBatches]

(* The calls on which the gates and the transform are looked at together: *)
(* rows the input gate lets through and the transform keeps or removes, a *)
(* row the input gate stops, a row on another product, and the three-row  *)
(* batches.                                                               *)
CoreSalesRows ==
    {BaseSalesRow} \cup
    {Deviate(BaseSalesRow, {d}) : d \in
        {<<"order_status", Some("Pending")>>, <<"discount", Some(DiscOne)>>,
         <<"discount", Some(DiscOne + 1)>>, <<"discount", NULL>>,
         <<"price", Some(-1)>>, <<"product_id", Some(2)>>}}

CoreCalls ==
    [sales_df : {Frame(sales_schema, SalesColumns, Numbered(s)) :
                    s \in SeqsUpTo(CoreSalesRows, MaxRows)},
     products_df : TransformProductBatches]
    \cup [sales_df : OrderSalesBatches, products_df : OrderProductBatches]

(* Batches that reach a gate with a column too many, a column too few or *)
(* a column of another physical type than its schema names.              *)
Without(columns, h) == SelectSeq(columns, LAMBDA c : c # h)
Retyped(df, h, dtype) == [df EXCEPT !.dtypes[h] = dtype]

OneClean == Frame(sales_clean_schema, final_columns, <<BaseCleanRow>>)
TwoClean ==
    Frame(sales_clean_schema, final_columns,
          Numbered(<<BaseCleanRow, Deviate(BaseCleanRow, {<<"qty", Some(0)>>})>>))

GateDriftSalesBatches ==
    {AddColumn(OneSale, "notes", Some("n")),
     Project(OneSale, Without(SalesColumns, "region")),
     Retyped(OneSale, "qty", "float64")}

GateDriftProductBatches ==
    {AddColumn(OneProduct, "notes", Some("m")),
     Project(OneProduct, Without(ProductColumns, "rating")),
     Retyped(OneProduct, "rating", "int64")}

GateDriftCleanBatches ==
    {AddColumn(OneClean, "notes", Some("n")),
     AddColumn(TwoClean, "order_status", Some("Completed")),
     Project(OneClean, Without(final_columns, "rating")),
     Retyped(TwoClean, "sale_hour", "float64")}

(* -------------------------------- S3 I/O ------------------------------ *)
(* extract_sales_and_products: each object read into a frame, its headers *)
(* lowercased and their spaces replaced (no strip here).                  *)
ExtractHeader(h) == str_replace_space(str_lower(h))

extract_sales_and_products(objects) ==
    [sales |-> RenameColumns(objects.sales, ExtractHeader),
     products |-> RenameColumns(objects.products, ExtractHeader)]

(* astype(str) and astype(bool) on one cell: a missing date prints as     *)
(* "NaT", a missing flag is truthy.                                       *)
astype_str(c) == IF IsNull(c) THEN Some("NaT") ELSE c
astype_bool(c) == IF IsNull(c) THEN Some(TRUE) ELSE c

(* df.to_csv(index=False): the header line and one line per row, in the  *)
(* frame's column order; the row labels and the dtypes are not written.   *)
to_csv(df) ==
    [header |-> df.columns,
     lines |-> [k \in 1..Len(df.rows) |-> [i \in 1..Len(df.columns) |-> df.rows[k][df.columns[i]]]]]

(* write_sales_clean_csv_to_s3: refuses an empty frame before anything is *)
(* converted or uploaded; converts sale_date to text and the two flags to *)
(* bool; then the upload succeeds or fails with the S3 service.           *)
write_sales_clean_csv_to_s3(df, s3_ok) ==
    IF Empty(df) THEN [raised |-> "ValueError", published |-> NULL]
    ELSE IF \E h \in {"sale_date", "is_in_stock", "is_discounted"} : ~HasColumn(df, h)
    THEN [raised |-> "RuntimeError", published |-> NULL]
    ELSE LET dated == SetColumn(df, "sale_date", "object",
                                LAMBDA row : astype_str(row["sale_date"]))
             stocked == SetColumn(dated, "is_in_stock", "bool",
                                  LAMBDA row : astype_bool(row["is_in_stock"]))
             flagged == SetColumn(stocked, "is_discounted", "bool",
                                  LAMBDA row : astype_bool(row["is_discounted"]))
         IN IF ~s3_ok THEN [raised |-> "RuntimeError", published |-> NULL]
            ELSE [raised |-> "none", published |-> Some(to_csv(flagged))]

(* ------------------------------ Snowflake ----------------------------- *)
(* An optional setting is a cell: NULL, or the configured string.  The    *)
(* S3 bucket and key are module constants of the DAG and always given.    *)
Given(c) == ~IsNull(c)

(* hook.run over a list of statements: fail_at is the position of the    *)
(* statement Snowflake refuses (0: none).  The statements sent, the ones  *)
(* that took effect, and whether the hook raised.                         *)
HookRun(stmts, fail_at) ==
    LET failed == fail_at \in 1..Len(stmts)
    IN [failed |-> failed,
        sent |-> IF failed THEN SubSeq(stmts, 1, fail_at) ELSE stmts,
        done |-> IF failed THEN SubSeq(stmts, 1, fail_at - 1) ELSE stmts]

CreateStage(args) ==
    IF Given(args.storage_integration)
    THEN "CREATE STAGE IF NOT EXISTS ... STORAGE_INTEGRATION"
    ELSE "CREATE STAGE IF NOT EXISTS ... CREDENTIALS"
IsCreateStage(stmt) ==
    stmt \in {"CREATE STAGE IF NOT EXISTS ... STORAGE_INTEGRATION",
              "CREATE STAGE IF NOT EXISTS ... CREDENTIALS"}

SnowflakeResult(raised, run, row_count, table) ==
    [raised |-> raised, statements |-> run.sent, hook_failed |-> run.failed,
     row_count |-> row_count, table |-> table]
NothingRun == HookRun(<<>>, 0)

(* ensure_snowflake_infrastructure that takes either half of the AWS key *)
(* pair as credentials.                                                   *)
ensure_snowflake_infrastructure_EitherKey(args, table, fail_at) ==
    IF ~Given(args.conn_id) THEN SnowflakeResult("AirflowException", NothingRun, 0, table)
    ELSE IF ~Given(args.database) \/ ~Given(args.warehouse)
    THEN SnowflakeResult("AirflowException", NothingRun, 0, table)
    ELSE
      LET create_stage ==
              /\ args.create_stage
              /\ ~(~Given(args.storage_integration)
                   /\ ~(Given(args.aws_key_id) \/ Given(args.aws_secret_key)))
          stmts ==
              (IF Given(args.role) THEN <<"USE ROLE">> ELSE <<>>)
              \o <<"CREATE WAREHOUSE IF NOT EXISTS", "CREATE DATABASE IF NOT EXISTS",
                   "CREATE SCHEMA IF NOT EXISTS schema",
                   "CREATE SCHEMA IF NOT EXISTS stage_schema",
                   "CREATE FILE FORMAT IF NOT EXISTS">>
              \o (IF create_stage THEN <<CreateStage(args)>> ELSE <<>>)
          run == HookRun(stmts, fail_at)
      IN SnowflakeResult(IF run.failed THEN "AirflowException" ELSE "none", run, 0, table)

(* ensure_snowflake_infrastructure: the bootstrap DDL, every statement    *)
(* IF NOT EXISTS; the sales table is not touched.                         *)
ensure_snowflake_infrastructure(args, table, fail_at) ==
    IF ~Given(args.conn_id) THEN SnowflakeResult("AirflowException", NothingRun, 0, table)
    ELSE IF ~Given(args.database) \/ ~Given(args.warehouse)
    THEN SnowflakeResult("AirflowException", NothingRun, 0, table)
    ELSE
      LET create_stage ==
              /\ args.create_stage
              /\ ~(~Given(args.storage_integration)
                   /\ ~(Given(args.aws_key_id) /\ Given(args.aws_secret_key)))
          stmts ==
              (IF Given(args.role) THEN <<"USE ROLE">> ELSE <<>>)
              \o <<"CREATE WAREHOUSE IF NOT EXISTS", "CREATE DATABASE IF NOT EXISTS",
                   "CREATE SCHEMA IF NOT EXISTS schema",
                   "CREATE SCHEMA IF NOT EXISTS stage_schema",
                   "CREATE FILE FORMAT IF NOT EXISTS">>
              \o (IF create_stage THEN <<CreateStage(args)>> ELSE <<>>)
          run == HookRun(stmts, fail_at)
      IN SnowflakeResult(IF run.failed THEN "AirflowException" ELSE "none", run, 0, table)

(* The sales table after the statements that took effect: TRUNCATE       *)
(* empties it; COPY INTO with SKIP_HEADER = 1 and FORCE = TRUE appends    *)
(* every line of the file after its header, whether or not the file was   *)
(* loaded before; an absent file loads nothing.                           *)
RECURSIVE Execute(_, _, _)
Execute(table, stmts, file) ==
    IF stmts = <<>> THEN table
    ELSE LET after ==
               CASE Head(stmts) = "TRUNCATE TABLE" -> <<>>
                 [] Head(stmts) = "COPY INTO" ->
                       table \o (IF IsNull(file) THEN <<>> ELSE Val(file).lines)
                 [] OTHER -> table
         IN Execute(after, Tail(stmts), file)

(* load_sales_clean_to_snowflake that never truncates. *)
load_sales_clean_to_snowflake_NoTruncate(args, file, table, fail_at) ==
    IF ~Given(args.conn_id) THEN SnowflakeResult("AirflowException", NothingRun, 0, table)
    ELSE IF ~Given(args.database) \/ ~Given(args.warehouse)
    THEN SnowflakeResult("AirflowException", NothingRun, 0, table)
    ELSE
      LET create_stage ==
              /\ args.create_stage
              /\ ~(~Given(args.storage_integration)
                   /\ ~(Given(args.aws_key_id) /\ Given(args.aws_secret_key)))
          stmts ==
              (IF Given(args.role) THEN <<"USE ROLE">> ELSE <<>>)
              \o <<"USE WAREHOUSE", "USE DATABASE", "USE SCHEMA",
                   "CREATE FILE FORMAT IF NOT EXISTS">>
              \o (IF create_stage THEN <<CreateStage(args)>> ELSE <<>>)
              \o <<"CREATE TABLE IF NOT EXISTS">>
              \o <<"COPY INTO", "SELECT COUNT(*)">>
          run == HookRun(stmts, fail_at)
          loaded == Execute(table, run.done, file)
      IN IF run.failed THEN SnowflakeResult("AirflowException", run, 0, loaded)
         ELSE SnowflakeResult("none", run, Len(loaded), loaded)

(* load_sales_clean_to_snowflake: session setup, file format, stage and   *)
(* table DDL, then TRUNCATE (when asked), COPY INTO and the row count.    *)
(* Each statement is committed on its own, so a failure leaves the table  *)
(* as the statements before it made it.                                   *)
load_sales_clean_to_snowflake(args, file, table, fail_at) ==
    IF ~Given(args.conn_id) THEN SnowflakeResult("AirflowException", NothingRun, 0, table)
    ELSE IF ~Given(args.database) \/ ~Given(args.warehouse)
    THEN SnowflakeResult("AirflowException", NothingRun, 0, table)
    ELSE
      LET create_stage ==
              /\ args.create_stage
              /\ ~(~Given(args.storage_integration)
                   /\ ~(Given(args.aws_key_id) /\ Given(args.aws_secret_key)))
          stmts ==
              (IF Given(args.role) THEN <<"USE ROLE">> ELSE <<>>)
              \o <<"USE WAREHOUSE", "USE DATABASE", "USE SCHEMA",
                   "CREATE FILE FORMAT IF NOT EXISTS">>
              \o (IF create_stage THEN <<CreateStage(args)>> ELSE <<>>)
              \o <<"CREATE TABLE IF NOT EXISTS">>
              \o (IF args.truncate_before_load THEN <<"TRUNCATE TABLE">> ELSE <<>>)
              \o <<"COPY INTO", "SELECT COUNT(*)">>
          run == HookRun(stmts, fail_at)
          loaded == Execute(table, run.done, file)
      IN IF run.failed THEN SnowflakeResult("AirflowException", run, 0, loaded)
         ELSE SnowflakeResult("none", run, Len(loaded), loaded)

(* The most statements one call sends. *)
MaxStatements == 10

(* ------------------------------ DAG tasks ----------------------------- *)
retries == 2

TaskOrder ==
    <<"extract", "validate_inputs", "transform", "validate_and_load",
      "prepare_snowflake", "load_to_snowflake">>
Tasks == Range(TaskOrder)
TaskPos(t) == CHOOSE i \in 1..Len(TaskOrder) : TaskOrder[i] = t
(* extract >> validate_inputs >> transform >> validate_and_load by the   *)
(* values passed on, validate_and_load >> prepare_snowflake >>            *)
(* load_to_snowflake by line 331; a task runs when its upstream task has  *)
(* succeeded (the default trigger rule).                                  *)
Upstream_ValuesOnly(t) ==
    IF TaskPos(t) \in {1, 5, 6} THEN {} ELSE {TaskOrder[TaskPos(t) - 1]}

Upstream(t) == IF TaskPos(t) = 1 THEN {} ELSE {TaskOrder[TaskPos(t) - 1]}
UpstreamOk(t) == \A u \in Upstream(t) : tstate[u] = "success"
Runnable(t) == tstate[t] \in {"none", "up_for_retry"} /\ UpstreamOk(t)

NoValue == [none |-> TRUE]
TaskOk(value) == [raised |-> "none", value |-> value]
TaskFails(exc) == [raised |-> exc, value |-> NoValue]

(* The body of each task: what it returns or raises. *)
extract(objects, s3_ok) ==
    IF s3_ok THEN TaskOk(extract_sales_and_products(objects))
    ELSE TaskFails("AirflowException")

(* validate_inputs that tests only the sales batch for emptiness. *)
validate_inputs_SalesOnly(data) ==
    LET sales == validate_sales(data.sales)
        products == validate_products(data.products)
    IN IF sales.raised # "none" THEN TaskFails(sales.raised)
       ELSE IF products.raised # "none" THEN TaskFails(products.raised)
       ELSE IF Empty(sales.df) THEN TaskFails("AirflowException")
       ELSE TaskOk([sales |-> sales.df, products |-> products.df])

validate_inputs(data) ==
    LET sales == validate_sales(data.sales)
        products == validate_products(data.products)
    IN IF sales.raised # "none" THEN TaskFails(sales.raised)
       ELSE IF products.raised # "none" THEN TaskFails(products.raised)
       ELSE IF Empty(sales.df) \/ Empty(products.df) THEN TaskFails("AirflowException")
       ELSE TaskOk([sales |-> sales.df, products |-> products.df])

transform(data, downcasts) ==
    LET enriched == transform_sales_and_products(data.sales, data.products, downcasts)
    IN IF enriched.raised # "none" THEN TaskFails("AirflowException")
       ELSE TaskOk(enriched.df)

(* validate_and_load also says which frames it called the S3 write with   *)
(* and what the write published.                                          *)
LoadResult(task, written, published) ==
    [raised |-> task.raised, value |-> task.value, written |-> written,
     published |-> published]

(* validate_and_load without its own test of clean_df.empty. *)
validate_and_load_NoEmptyTest(df, s3_ok) ==
    LET gate == validate_sales_clean(df)
        upload == write_sales_clean_csv_to_s3(gate.df, s3_ok)
    IN IF gate.raised # "none" THEN LoadResult(TaskFails("AirflowException"), <<>>, NULL)
       ELSE IF upload.raised # "none"
       THEN LoadResult(TaskFails("AirflowException"), <<gate.df>>, NULL)
       ELSE LoadResult(TaskOk("Pipeline SUCCESS"), <<gate.df>>, upload.published)

(* validate_and_load that, once an attempt has called the S3 write,      *)
(* publishes the frame it is given without passing it through the gate.   *)
validate_and_load_RetrySkipsGate(df, s3_ok) ==
    LET gate == IF writes # <<>> THEN Return(df, 0) ELSE validate_sales_clean(df)
        upload == write_sales_clean_csv_to_s3(gate.df, s3_ok)
    IN IF gate.raised # "none" THEN LoadResult(TaskFails("AirflowException"), <<>>, NULL)
       ELSE IF Empty(gate.df) THEN LoadResult(TaskFails("AirflowException"), <<>>, NULL)
       ELSE IF upload.raised # "none"
       THEN LoadResult(TaskFails("AirflowException"), <<gate.df>>, NULL)
       ELSE LoadResult(TaskOk("Pipeline SUCCESS"), <<gate.df>>, upload.published)

validate_and_load(df, s3_ok) ==
    LET gate == validate_sales_clean(df)
        upload == write_sales_clean_csv_to_s3(gate.df, s3_ok)
    IN IF gate.raised # "none" THEN LoadResult(TaskFails("AirflowException"), <<>>, NULL)
       ELSE IF Empty(gate.df) THEN LoadResult(TaskFails("AirflowException"), <<>>, NULL)
       ELSE IF upload.raised # "none"
       THEN LoadResult(TaskFails("AirflowException"), <<gate.df>>, NULL)
       ELSE LoadResult(TaskOk("Pipeline SUCCESS"), <<gate.df>>, upload.published)

(* prepare_snowflake and load_to_snowflake: cfg is config.get("snowflake"), *)
(* null when the section is absent.  Both say what they left the sales    *)
(* table as; load_to_snowflake also whether it called the load.           *)
ConnectionArgs(cfg) ==
    [conn_id |-> cfg.conn_id, database |-> cfg.database, warehouse |-> cfg.warehouse,
     role |-> cfg.role, storage_integration |-> cfg.storage_integration,
     aws_key_id |-> cfg.aws_key_id, aws_secret_key |-> cfg.aws_secret_key]

SnowflakeTask(task, table, calls) ==
    [raised |-> task.raised, value |-> task.value, table |-> table, calls |-> calls]

prepare_snowflake(cfg, table, fail_at) ==
    IF IsNull(cfg) THEN SnowflakeTask(TaskFails("AirflowException"), table, 0)
    ELSE IF ~Val(cfg).enabled \/ ~Val(cfg).bootstrap
    THEN SnowflakeTask(TaskOk("Snowflake bootstrap skipped"), table, 0)
    ELSE
      LET args == [a \in {"create_stage"} |-> Val(cfg).create_stage]
                     @@ ConnectionArgs(Val(cfg))
          ensured == ensure_snowflake_infrastructure(args, table, fail_at)
      IN IF ensured.raised # "none"
         THEN SnowflakeTask(TaskFails(ensured.raised), ensured.table, 0)
         ELSE SnowflakeTask(TaskOk("Snowflake bootstrap complete"), ensured.table, 0)

load_to_snowflake(cfg, file, table, fail_at) ==
    IF IsNull(cfg) THEN SnowflakeTask(TaskFails("AirflowException"), table, 0)
    ELSE IF ~Val(cfg).enabled
    THEN SnowflakeTask(TaskOk("Snowflake load skipped"), table, 0)
    ELSE
      LET load_create_stage == Val(cfg).create_stage /\ ~Val(cfg).bootstrap
          args == [create_stage |-> load_create_stage,
                   truncate_before_load |-> Val(cfg).truncate_before_load]
                     @@ ConnectionArgs(Val(cfg))
          loaded == load_sales_clean_to_snowflake(args, file, table, fail_at)
      IN IF loaded.raised # "none"
         THEN SnowflakeTask(TaskFails(loaded.raised), loaded.table, 1)
         ELSE SnowflakeTask(TaskOk([rows |-> loaded.row_count]), loaded.table, 1)

(* The snowflake section of config.yaml: absent, switched off, and        *)
(* bootstrap with a storage integration.                                  *)
BootstrapCfg ==
    [enabled |-> TRUE, bootstrap |-> TRUE, create_stage |-> TRUE,
     truncate_before_load |-> TRUE, conn_id |-> Some("snowflake_default"),
     database |-> Some("RETAIL"), warehouse |-> Some("COMPUTE_WH"), role |-> NULL,
     storage_integration |-> Some("S3_INT"), aws_key_id |-> NULL, aws_secret_key |-> NULL]

SnowflakeConfigs ==
    {NULL,
     Some([BootstrapCfg EXCEPT !.enabled = FALSE]),
     Some(BootstrapCfg)}

(* ------------------------- raw objects (bounded) ---------------------- *)
RunSalesRows ==
    {BaseSalesRow} \cup
    {Deviate(BaseSalesRow, {d}) : d \in
        {<<"qty", NULL>>, <<"qty", Some(0)>>, <<"order_status", Some("Pending")>>,
         <<"time_stamp", Some("not a date")>>, <<"product_id", Some(3)>>}}

RunProductRows ==
    {BaseProductRow,
     [product_id |-> Some(2), category |-> NULL, brand |-> Some("Y"),
      rating |-> Some(3), in_stock |-> Some(FALSE)]}

RawSalesObjects ==
    {RenameColumns(Frame(sales_schema, SalesColumns, Numbered(s)), RawHeader) :
        s \in SeqsUpTo(RunSalesRows, MaxRows)}

RawProductObjects ==
    {RenameColumns(Frame(products_schema, ProductColumns, s), RawHeader) :
        s \in {t \in SeqsUpTo(RunProductRows, MaxProducts) :
                  \A i, j \in 1..Len(t) :
                      i < j => Val(t[i]["product_id"]) < Val(t[j]["product_id"])}}

(* ---------------- the validators applied to any batch ----------------- *)
NoArgs == [df |-> NoBatch]
NoRet == Raise("none")

(* The DAG's variables while no run is modelled. *)
DagIdle ==
    /\ raw = [sales |-> NoBatch, products |-> NoBatch]
    /\ pandas_downcasts = TRUE
    /\ tstate = [t \in Tasks |-> "none"]
    /\ tries = [t \in Tasks |-> 0]
    /\ xcom = [t \in Tasks |-> NoValue]
    /\ s3_processed = NULL
    /\ writes = <<>>
    /\ transform_calls = 0
    /\ snowflake_cfg = <<>>
    /\ sales_clean_table = <<>>
    /\ load_calls = 0

InitValidate ==
    /\ DagIdle
    /\ hPc = "call"
    /\ \/ hCallee = "validate_sales"
          /\ hArgs \in [df : GateSalesBatches \cup GateDriftSalesBatches]
       \/ hCallee = "validate_products"
          /\ hArgs \in [df : GateProductBatches \cup GateDriftProductBatches]
       \/ hCallee = "validate_sales_clean"
          /\ hArgs \in [df : GateCleanBatches \cup GateDriftCleanBatches]
    /\ hRet = NoRet

CallValidateSales ==
    /\ hPc = "call" /\ hCallee = "validate_sales"
    /\ hRet' = validate_sales(hArgs.df)
    /\ hPc' = "done"
    /\ UNCHANGED <<hCallee, hArgs>>
    /\ UNCHANGED dvars

CallValidateProducts ==
    /\ hPc = "call" /\ hCallee = "validate_products"
    /\ hRet' = validate_products(hArgs.df)
    /\ hPc' = "done"
    /\ UNCHANGED <<hCallee, hArgs>>
    /\ UNCHANGED dvars

CallValidateSalesClean ==
    /\ hPc = "call" /\ hCallee = "validate_sales_clean"
    /\ hRet' = validate_sales_clean(hArgs.df)
    /\ hPc' = "done"
    /\ UNCHANGED <<hCallee, hArgs>>
    /\ UNCHANGED dvars

NextValidate == CallValidateSales \/ CallValidateProducts \/ CallValidateSalesClean

SpecValidate == InitValidate /\ [][NextValidate]_vars

(* ---------------- the transform applied to any batches ---------------- *)
InitTransform ==
    /\ DagIdle
    /\ hPc = "call"
    /\ hCallee = "transform_sales_and_products"
    /\ hArgs \in TransformCalls
    /\ hRet = NoRet

CallTransform ==
    /\ hPc = "call" /\ hCallee = "transform_sales_and_products"
    /\ \E fillna_downcasts \in BOOLEAN :
          hRet' = transform_sales_and_products(hArgs.sales_df, hArgs.products_df,
                                               fillna_downcasts)
    /\ hPc' = "done"
    /\ UNCHANGED <<hCallee, hArgs>>
    /\ UNCHANGED dvars

NextTransform == CallTransform

SpecTransform == InitTransform /\ [][NextTransform]_vars

(* ------- the transform between the input gate and the output gate ------ *)
InitCore ==
    /\ DagIdle
    /\ hPc = "call"
    /\ hCallee = "transform_sales_and_products"
    /\ hArgs \in CoreCalls
    /\ hRet = NoRet

SpecCore == InitCore /\ [][NextTransform]_vars

(* ------------- the Snowflake functions called again and again --------- *)
(* The file in S3 is one the pipeline published; the sales table is new   *)
(* or holds the rows of an earlier file; the arguments are those of one   *)
(* configuration, or lack the connection id.                              *)
PublishedFiles ==
    {write_sales_clean_csv_to_s3(df, TRUE).published :
        df \in {OneClean,
                Frame(sales_clean_schema, final_columns,
                      Numbered(<<BaseCleanRow, BaseCleanRow>>))}}

EarlierTables == {<<>>, Val(write_sales_clean_csv_to_s3(OneClean, TRUE).published).lines}

SnowflakeArgs ==
    [conn_id : {Some("snowflake_default")}, database : {Some("RETAIL")},
     warehouse : {Some("COMPUTE_WH")}, role : {NULL, Some("LOADER")},
     storage_integration : {NULL, Some("S3_INT")},
     aws_key_id : {NULL, Some("AKIA")}, aws_secret_key : {NULL, Some("s")},
     create_stage : BOOLEAN, truncate_before_load : BOOLEAN]
    \cup {[ConnectionArgs(BootstrapCfg) EXCEPT !.conn_id = NULL]
             @@ [create_stage |-> TRUE, truncate_before_load |-> TRUE]}

InitSnowflake ==
    /\ hPc = "idle" /\ hCallee = "none" /\ hRet = NothingRun
    /\ hArgs \in SnowflakeArgs
    /\ raw = [sales |-> NoBatch, products |-> NoBatch]
    /\ pandas_downcasts = TRUE
    /\ tstate = [t \in Tasks |-> "none"]
    /\ tries = [t \in Tasks |-> 0]
    /\ xcom = [t \in Tasks |-> NoValue]
    /\ s3_processed \in PublishedFiles
    /\ writes = <<>>
    /\ transform_calls = 0
    /\ snowflake_cfg = <<>>
    /\ sales_clean_table \in EarlierTables
    /\ load_calls = 0

CallEnsureInfrastructure ==
    /\ \E fail_at \in 0..MaxStatements :
          LET result == ensure_snowflake_infrastructure(hArgs, sales_clean_table, fail_at)
          IN /\ hRet' = result
             /\ sales_clean_table' = result.table
    /\ hPc' = "done" /\ hCallee' = "ensure_snowflake_infrastructure"
    /\ UNCHANGED <<hArgs, raw, pandas_downcasts, tstate, tries, xcom, s3_processed,
                   writes, transform_calls, snowflake_cfg, load_calls>>

CallLoadSalesClean ==
    /\ load_calls < MaxLoads
    /\ \E fail_at \in 0..MaxStatements :
          LET result == load_sales_clean_to_snowflake(hArgs, s3_processed,
                                                      sales_clean_table, fail_at)
          IN /\ hRet' = result
             /\ sales_clean_table' = result.table
    /\ load_calls' = load_calls + 1
    /\ hPc' = "done" /\ hCallee' = "load_sales_clean_to_snowflake"
    /\ UNCHANGED <<hArgs, raw, pandas_downcasts, tstate, tries, xcom, s3_processed,
                   writes, transform_calls, snowflake_cfg>>

NextSnowflake == CallEnsureInfrastructure \/ CallLoadSalesClean

SpecSnowflake == InitSnowflake /\ [][NextSnowflake]_vars

(* ------------------------------ one DAG run --------------------------- *)
Init ==
    /\ hPc = "idle" /\ hCallee = "none" /\ hArgs = NoArgs /\ hRet = NoRet
    /\ raw \in [sales : RawSalesObjects, products : RawProductObjects]
    /\ pandas_downcasts \in BOOLEAN
    /\ tstate = [t \in Tasks |-> "none"]
    /\ tries = [t \in Tasks |-> 0]
    /\ xcom = [t \in Tasks |-> NoValue]
    /\ s3_processed = NULL
    /\ writes = <<>>
    /\ transform_calls = 0
    /\ snowflake_cfg = <<>>
    /\ sales_clean_table = <<>>
    /\ load_calls = 0

(* One attempt of task t ends: success with its return value pushed to    *)
(* XCom, or an exception, after which the task is retried until it has    *)
(* failed retries + 1 times.                                              *)
Finish_ExtraRetry(t, result) ==
    /\ tries' = [tries EXCEPT ![t] = @ + 1]
    /\ IF result.raised = "none"
       THEN /\ tstate' = [tstate EXCEPT ![t] = "success"]
            /\ xcom' = [xcom EXCEPT ![t] = result.value]
       ELSE /\ tstate' = [tstate EXCEPT ![t] =
                            IF tries[t] > retries THEN "failed" ELSE "up_for_retry"]
            /\ xcom' = xcom

Finish(t, result) ==
    /\ tries' = [tries EXCEPT ![t] = @ + 1]
    /\ IF result.raised = "none"
       THEN /\ tstate' = [tstate EXCEPT ![t] = "success"]
            /\ xcom' = [xcom EXCEPT ![t] = result.value]
       ELSE /\ tstate' = [tstate EXCEPT ![t] =
                            IF tries[t] + 1 > retries THEN "failed" ELSE "up_for_retry"]
            /\ xcom' = xcom

RunExtract ==
    /\ Runnable("extract")
    /\ \E s3_ok \in BOOLEAN : Finish("extract", extract(raw, s3_ok))
    /\ UNCHANGED <<hvars, svars, raw, pandas_downcasts, s3_processed, writes,
                   transform_calls>>

RunValidateInputs ==
    /\ Runnable("validate_inputs")
    /\ Finish("validate_inputs", validate_inputs(xcom["extract"]))
    /\ UNCHANGED <<hvars, svars, raw, pandas_downcasts, s3_processed, writes,
                   transform_calls>>

RunTransform ==
    /\ Runnable("transform")
    /\ Finish("transform", transform(xcom["validate_inputs"], pandas_downcasts))
    /\ transform_calls' = transform_calls + 1
    /\ UNCHANGED <<hvars, svars, raw, pandas_downcasts, s3_processed, writes>>

RunValidateAndLoad ==
    /\ Runnable("validate_and_load")
    /\ \E s3_ok \in BOOLEAN :
         LET result == validate_and_load(xcom["transform"], s3_ok)
         IN /\ Finish("validate_and_load", result)
            /\ writes' = writes \o result.written
            /\ s3_processed' = IF IsNull(result.published) THEN s3_processed
                               ELSE result.published
    /\ UNCHANGED <<hvars, svars, raw, pandas_downcasts, transform_calls>>

(* A task whose upstream task failed is never run. *)
SkipDownstream ==
    /\ \E t \in Tasks :
         /\ tstate[t] = "none"
         /\ \E u \in Upstream(t) : tstate[u] \in {"failed", "upstream_failed"}
         /\ tstate' = [tstate EXCEPT ![t] = "upstream_failed"]
    /\ UNCHANGED <<hvars, svars, raw, pandas_downcasts, tries, xcom, s3_processed,
                   writes, transform_calls>>

(* config.yaml is read when the process of a task imports the DAG file  *)
(* (lines 12-14); prepare_snowflake is the first task to look at its      *)
(* snowflake section, and the file does not change during a run.          *)
ReadSnowflakeCfg ==
    IF snowflake_cfg = <<>> THEN SnowflakeConfigs ELSE {snowflake_cfg[1]}

RunPrepareSnowflake ==
    /\ Runnable("prepare_snowflake")
    /\ \E cfg \in ReadSnowflakeCfg : \E fail_at \in 0..MaxStatements :
         LET result == prepare_snowflake(cfg, sales_clean_table, fail_at)
         IN /\ Finish("prepare_snowflake", result)
            /\ snowflake_cfg' = <<cfg>>
            /\ sales_clean_table' = result.table
    /\ UNCHANGED <<hvars, raw, pandas_downcasts, s3_processed, writes, transform_calls,
                   load_calls>>

RunLoadToSnowflake ==
    /\ Runnable("load_to_snowflake")
    /\ \E cfg \in ReadSnowflakeCfg : \E fail_at \in 0..MaxStatements :
         LET result == load_to_snowflake(cfg, s3_processed, sales_clean_table, fail_at)
         IN /\ Finish("load_to_snowflake", result)
            /\ snowflake_cfg' = <<cfg>>
            /\ sales_clean_table' = result.table
            /\ load_calls' = load_calls + result.calls
    /\ UNCHANGED <<hvars, raw, pandas_downcasts, s3_processed, writes, transform_calls>>

Next ==
    \/ RunExtract
    \/ RunValidateInputs
    \/ RunTransform
    \/ RunValidateAndLoad
    \/ RunPrepareSnowflake
    \/ RunLoadToSnowflake
    \/ SkipDownstream

Spec == Init /\ [][Next]_vars

(* The same run under the scheduler: a task that can run is attempted    *)
(* eventually and one that has to be skipped is skipped eventually (each  *)
(* attempt ends within execution_timeout, a retry starts after            *)
(* retry_delay).  The runs taken here are those on one-row objects and on *)
(* a kept and a dropped row.                                              *)
AttemptOf(t) == Runnable(t) /\ tries' = [tries EXCEPT ![t] = @ + 1]

SchedulerSalesRows ==
    {<<r>> : r \in RunSalesRows} \cup
    {<<BaseSalesRow, Deviate(BaseSalesRow, {<<"product_id", Some(3)>>})>>}

SchedulerObjects ==
    [sales : {RenameColumns(Frame(sales_schema, SalesColumns, Numbered(s)), RawHeader) :
                 s \in SchedulerSalesRows},
     products : {RenameColumns(Frame(products_schema, ProductColumns, <<r>>), RawHeader) :
                    r \in RunProductRows}]

InitScheduled == Init /\ raw \in SchedulerObjects

FairSpec ==
    /\ InitScheduled /\ [][Next]_vars
    /\ \A t \in Tasks : WF_tries(AttemptOf(t))
    /\ WF_vars(SkipDownstream)

(* ====================================================================== *)
(*                       claims on the validators                         *)
(* ====================================================================== *)
Validators == {"validate_sales", "validate_products", "validate_sales_clean"}

SchemaOf(callee) ==
    CASE callee = "validate_sales" -> sales_schema
      [] callee = "validate_products" -> products_schema
      [] OTHER -> sales_clean_schema

Validated == hPc = "done" /\ hCallee \in Validators
Returned == Validated /\ hRet.raised = "none"

(* The cell of row under column col breaks col's nullability or its check. *)
CellBreaks(col, row) ==
    \/ ~col.nullable /\ IsNull(row[col.name])
    \/ ~IsNull(row[col.name]) /\ ~CheckHolds(col.check, Val(row[col.name]))

RowBreaks(schema, row) == \E c \in Range(schema.columns) : CellBreaks(c, row)

(* The frame has exactly the schema's demands met: columns, dtypes, cells. *)
Conforms(schema, df) ==
    /\ \A c \in Range(schema.columns) :
          HasColumn(df, c.name) /\ df.dtypes[c.name] = c.dtype
    /\ schema.strict => Range(df.columns) \subseteq SchemaNames(schema)
    /\ \A i \in 1..Len(df.rows) : ~RowBreaks(schema, df.rows[i])

Apply(callee, df) ==
    CASE callee = "validate_sales" -> validate_sales(df)
      [] callee = "validate_products" -> validate_products(df)
      [] OTHER -> validate_sales_clean(df)

(* C1: whenever a validator returns, a row of the input is absent from    *)
(* the cleaned batch exactly when one of its cells breaks a constraint of *)
(* the schema, and every row kept is the input row, cell for cell.        *)
C1_WholeRowQuarantine ==
    Returned =>
      LET in == hArgs.df
          out == hRet.df
      IN /\ \A i \in 1..Len(in.rows) :
               (in.index[i] \notin Range(out.index)) <=> RowBreaks(SchemaOf(hCallee), in.rows[i])
         /\ \A k \in 1..Len(out.rows) :
               \E i \in 1..Len(in.rows) :
                  in.index[i] = out.index[k] /\ in.rows[i] = out.rows[k]
         /\ out.columns = in.columns

C1_Witness ==
    /\ Returned /\ hCallee = "validate_sales_clean"
    /\ Len(hRet.df.rows) = 1 /\ Len(hArgs.df.rows) = 2

(* C2: the count a validator returns is the number of (row, constraint)   *)
(* breaches of the input, a row breaking k constraints counting k times,  *)
(* and so at least the number of rows removed.                            *)
BreachCount(schema, df) ==
    Cardinality({p \in (1..Len(df.rows)) \X (1..Len(schema.columns)) :
                    CellBreaks(schema.columns[p[2]], df.rows[p[1]])})

FirstPass(callee, df) == FailureCases(SchemaOf(callee), df)
Cleaned(callee, df) ==
    IF FailedIndices(FirstPass(callee, df)) # {}
    THEN DropIndex(df, FailedIndices(FirstPass(callee, df)))
    ELSE df
SecondPassFails(callee, df) ==
    /\ FirstPass(callee, df) # {}
    /\ ~Empty(Cleaned(callee, df))
    /\ FailureCases(SchemaOf(callee), Cleaned(callee, df)) # {}

C3_BestEffortReturn ==
    (Validated /\ SecondPassFails(hCallee, hArgs.df)) =>
        hRet = Return(Cleaned(hCallee, hArgs.df), Cardinality(FirstPass(hCallee, hArgs.df)))

(* C4: a batch that already conforms to its schema comes back as it is    *)
(* with count 0, and a validator applied to a batch it returned gives     *)
(* that batch back with count 0.                                          *)
C4_CleanBatchUnchanged ==
    /\ (Validated /\ Conforms(SchemaOf(hCallee), hArgs.df)) => hRet = Return(hArgs.df, 0)
    /\ Returned => Apply(hCallee, hRet.df) = Return(hRet.df, 0)

C4_Witness ==
    /\ Returned /\ hCallee = "validate_sales" /\ hRet.count = 0
    /\ Len(hRet.df.rows) = 2
    /\ IsNull(hRet.df.rows[1]["discount"]) /\ IsNull(hRet.df.rows[2]["region"])

(* C6 (as claimed): every record the output gate returns has price > 0    *)
(* and revenue > 0.                                                       *)
C6_GatePositiveMoney ==
    (Returned /\ hCallee = "validate_sales_clean") =>
        \A k \in 1..Len(hRet.df.rows) :
            /\ Val(hRet.df.rows[k]["price"]) > 0
            /\ Val(hRet.df.rows[k]["revenue"]) > 0

(* ====================================================================== *)
(*                       claims on the transform                          *)
(* ====================================================================== *)
Transformed == hPc = "done" /\ hCallee = "transform_sales_and_products"
TReturned == Transformed /\ hRet.raised = "none"

(* The sales batch of the call, read under its normalized headers. *)
SalesIn == RenameColumns(hArgs.sales_df, NormalizeHeader)

(* A call with exactly the columns the two input schemas name. *)
PlainCall ==
    /\ SalesIn.columns = SalesColumns
    /\ hArgs.products_df.columns = ProductColumns

(* The revenue line 63 computes for a sales row, null discount as 0. *)
DiscountOr0(row) == IF IsNull(row["discount"]) THEN 0 ELSE Val(row["discount"])
RowRevenue(row) == Val(row["qty"]) * Val(row["price"]) * (DiscOne - DiscountOr0(row))

(* A row the transform's two filters let through. *)
Survives(row) ==
    /\ row["order_status"] = Some("Completed")
    /\ ~IsNull(row["price"]) /\ ~IsNull(row["qty"])
    /\ Val(row["price"]) > 0
    /\ RowRevenue(row) > 0

Unparseable(row) == to_datetime(Val(row["time_stamp"])) = NULL

(* C5 (as claimed): a Completed row that passes the financial filter and  *)
(* has an unparseable time_stamp does not make the transform raise; the   *)
(* row is in the enriched batch with null sale_date and sale_hour.        *)
C5_NullTimestampDoesNotRaise ==
    Transformed =>
      \A i \in 1..Len(SalesIn.rows) :
        (Survives(SalesIn.rows[i]) /\ Unparseable(SalesIn.rows[i])) =>
            /\ hRet.raised = "none"
            /\ \E k \in 1..Len(hRet.df.rows) :
                  /\ hRet.df.rows[k]["sales_id"] = SalesIn.rows[i]["sales_id"]
                  /\ IsNull(hRet.df.rows[k]["sale_date"])
                  /\ IsNull(hRet.df.rows[k]["sale_hour"])

(* C9: in every record the transform returns, revenue is                  *)
(* qty * price * (1 - discount) for the record's own discount, which is   *)
(* the sales row's discount, or 0 where that was null.                    *)
C9_RevenueLaw ==
    TReturned =>
      LET in == SalesIn.rows
      IN \A k \in 1..Len(hRet.df.rows) :
           LET rec == hRet.df.rows[k]
           IN /\ ~IsNull(rec["discount"]) /\ ~IsNull(rec["revenue"])
              /\ Val(rec["revenue"]) =
                    Val(rec["qty"]) * Val(rec["price"]) * (DiscOne - Val(rec["discount"]))
              /\ \A i \in 1..Len(in) :
                    in[i]["sales_id"] = rec["sales_id"] =>
                       /\ Val(rec["discount"]) = DiscountOr0(in[i])
                       /\ rec["qty"] = in[i]["qty"]
                       /\ rec["price"] = in[i]["price"]

C9_Witness ==
    /\ TReturned
    /\ \E k \in 1..Len(hRet.df.rows) : \E i \in 1..Len(SalesIn.rows) :
          /\ SalesIn.rows[i]["sales_id"] = hRet.df.rows[k]["sales_id"]
          /\ IsNull(SalesIn.rows[i]["discount"])
          /\ hRet.df.rows[k]["revenue"] = Some(2 * 3 * DiscOne)
    /\ \E k \in 1..Len(hRet.df.rows) : Val(hRet.df.rows[k]["discount"]) > 0

(* C10: a record of the output comes from a sales row whose order_status  *)
(* is exactly "Completed"; a batch with no such row gives an output of 0  *)
(* rows, without raising; and the status of a row has no part in the      *)
(* violation count of the sales schema.                                   *)
AllCompleted(df) == SetColumn(df, "order_status", "object", LAMBDA r : Some("Completed"))

C10_OnlyCompleted ==
    LET in == SalesIn
    IN /\ TReturned =>
            \A k \in 1..Len(hRet.df.rows) :
               \E i \in 1..Len(in.rows) :
                  /\ in.rows[i]["sales_id"] = hRet.df.rows[k]["sales_id"]
                  /\ in.rows[i]["order_status"] = Some("Completed")
       /\ (Transformed /\ PlainCall /\ \A i \in 1..Len(in.rows) :
                             in.rows[i]["order_status"] # Some("Completed"))
            => (hRet.raised = "none" /\ Len(hRet.df.rows) = 0)
       /\ Transformed =>
            Cardinality(FailureCases(sales_schema, in))
               = Cardinality(FailureCases(sales_schema, AllCompleted(in)))

C10_Witness ==
    /\ TReturned /\ Len(SalesIn.rows) = 2 /\ Len(hRet.df.rows) = 1
    /\ SalesIn.rows[1]["order_status"] = Some("completed")
    /\ hRet.df.rows[1]["sales_id"] = Some(2)

(* ====================================================================== *)
(*                          claims on the DAG run                         *)
(* ====================================================================== *)
Succeeded(t) == tstate[t] = "success"
Raised(t) == tstate[t] \in {"up_for_retry", "failed"}
Attempted(t) == tries[t] > 0

(* What the output gate is left with after quarantining, for a frame the *)
(* transform returned.                                                    *)
OutputCleaned(df) == Cleaned("validate_sales_clean", df)

(* C7: when the batch the output gate is left with is empty, the          *)
(* validate_and_load task raises on every attempt, and in that run        *)
(* write_sales_clean_csv_to_s3 is never called and nothing is published.  *)
C7_EmptyOutputIsFatal ==
    (Succeeded("transform") /\ Empty(OutputCleaned(xcom["transform"]))) =>
        /\ writes = <<>>
        /\ IsNull(s3_processed)
        /\ ~Succeeded("validate_and_load")
        /\ Attempted("validate_and_load") => Raised("validate_and_load")

C7_Witness ==
    /\ Succeeded("transform")
    /\ ~Empty(xcom["transform"])
    /\ Empty(OutputCleaned(xcom["transform"]))
    /\ tstate["validate_and_load"] = "failed"
    /\ tries["validate_and_load"] = retries + 1

(* C8: the input gate returns each batch as its own validator cleaned it; *)
(* when either cleaned batch is empty the validate_inputs task raises on  *)
(* every attempt and the transform task is never executed in that run.    *)
InputCleanedEmpty(data) ==
    \/ Empty(Cleaned("validate_sales", data.sales))
    \/ Empty(Cleaned("validate_products", data.products))

C8_InputGateStopsEmptyBatches ==
    Succeeded("extract") =>
        /\ Succeeded("validate_inputs") =>
              /\ xcom["validate_inputs"].sales = validate_sales(xcom["extract"].sales).df
              /\ xcom["validate_inputs"].products =
                     validate_products(xcom["extract"].products).df
        /\ InputCleanedEmpty(xcom["extract"]) =>
              /\ ~Succeeded("validate_inputs")
              /\ Attempted("validate_inputs") => Raised("validate_inputs")
              /\ transform_calls = 0
              /\ tstate["transform"] \in {"none", "upstream_failed"}

C8_Witness ==
    /\ Succeeded("extract")
    /\ ~Empty(Cleaned("validate_sales", xcom["extract"].sales))
    /\ ~Empty(xcom["extract"].products)
    /\ Empty(Cleaned("validate_products", xcom["extract"].products))
    /\ tstate["validate_inputs"] = "failed"
    /\ tstate["transform"] = "upstream_failed"
    /\ transform_calls = 0

(* ====================================================================== *)
(*                    claims on the transform, continued                  *)
(* ====================================================================== *)
(* str.contains("[a-z]") on the region values used here. *)
str_contains_lower(s) == s \in {"us", "eu", "Apac"}

(* The rows of the sales input with the sales_id of an output record. *)
Origins(rec) ==
    LET in == SalesIn
    IN {i \in 1..Len(in.rows) : in.rows[i]["sales_id"] = rec["sales_id"]}

(* C11: in every record the transform returns, region is not null and    *)
(* holds no lowercase character: it is "UNKNOWN" where the sales row had  *)
(* no region and the uppercase form of the sales row's region otherwise.  *)
C11_RegionUppercase ==
    TReturned =>
      \A k \in 1..Len(hRet.df.rows) :
        LET rec == hRet.df.rows[k]
        IN /\ ~IsNull(rec["region"])
           /\ ~str_contains_lower(Val(rec["region"]))
           /\ Origins(rec) # {}
           /\ LET in == SalesIn.rows
              IN \A i \in Origins(rec) :
                    rec["region"] = IF IsNull(in[i]["region"]) THEN Some("UNKNOWN")
                                    ELSE Some(str_upper(Val(in[i]["region"])))

C11_Witness ==
    /\ TReturned
    /\ \E k \in 1..Len(hRet.df.rows) :
          /\ hRet.df.rows[k]["region"] = Some("UNKNOWN")
          /\ \A i \in Origins(hRet.df.rows[k]) : IsNull(SalesIn.rows[i]["region"])
    /\ \E k \in 1..Len(hRet.df.rows) :
          /\ hRet.df.rows[k]["region"] = Some("US")
          /\ \A i \in Origins(hRet.df.rows[k]) : SalesIn.rows[i]["region"] = Some("us")

(* The sales_id values of a frame's rows, and the input rows a predicate  *)
(* selects.                                                               *)
SalesIds(rows) == {rows[k]["sales_id"] : k \in 1..Len(rows)}
InputRows(P(_)) ==
    LET in == SalesIn
    IN {i \in 1..Len(in.rows) : P(in.rows[i])}
UniqueProductIds ==
    \A i, j \in 1..Len(hArgs.products_df.rows) :
        hArgs.products_df.rows[i]["product_id"] = hArgs.products_df.rows[j]["product_id"]
            => i = j

(* A Completed row that has neither price <= 0 nor revenue <= 0, a null   *)
(* price or revenue being neither.                                        *)
NotBadAsClaimed(row) ==
    /\ row["order_status"] = Some("Completed")
    /\ ~(~IsNull(row["price"]) /\ Val(row["price"]) <= 0)
    /\ ~(~IsNull(row["price"]) /\ ~IsNull(row["qty"]) /\ RowRevenue(row) <= 0)

(* C12 (as claimed): the records of the output are exactly the Completed  *)
(* rows that have neither price <= 0 nor revenue <= 0, one record each    *)
(* when product_id is unique among the products.                          *)
C12_FilterAsClaimed ==
    TReturned =>
        /\ SalesIds(hRet.df.rows) = {SalesIn.rows[i]["sales_id"] : i \in InputRows(NotBadAsClaimed)}
        /\ UniqueProductIds =>
              Len(hRet.df.rows) = Cardinality(InputRows(NotBadAsClaimed))

(* C12 (amended): the records of the output are exactly the Completed     *)
(* rows whose price and revenue are both greater than 0 (a row with a     *)
(* null price, hence a null revenue, is removed too), one record each     *)
(* when product_id is unique among the products.                          *)
C12_FinancialFilter ==
    TReturned =>
        /\ SalesIds(hRet.df.rows) = {SalesIn.rows[i]["sales_id"] : i \in InputRows(Survives)}
        /\ UniqueProductIds =>
              Len(hRet.df.rows) = Cardinality(InputRows(Survives))

C12_Witness ==
    /\ TReturned /\ UniqueProductIds
    /\ Len(SalesIn.rows) = 2 /\ Len(hRet.df.rows) = 1
    /\ \E i \in 1..2 :
          /\ SalesIn.rows[i]["order_status"] = Some("Completed")
          /\ ~IsNull(SalesIn.rows[i]["price"]) /\ Val(SalesIn.rows[i]["price"]) > 0
          /\ RowRevenue(SalesIn.rows[i]) <= 0
          /\ SalesIn.rows[i]["sales_id"] \notin SalesIds(hRet.df.rows)

(* The product rows with the product_id of a sales row. *)
Matches(row) ==
    {j \in 1..Len(hArgs.products_df.rows) :
        hArgs.products_df.rows[j]["product_id"] = row["product_id"]}
Records(id) == {k \in 1..Len(hRet.df.rows) : hRet.df.rows[k]["sales_id"] = id}

(* C13: every sales row the filters let through has a record in the       *)
(* output; a row whose product_id no product row has appears once, with   *)
(* null category, brand and rating and is_in_stock false.                 *)
C13_LeftJoinKeepsUnmatched ==
    TReturned =>
      \A i \in InputRows(Survives) :
        LET row == SalesIn.rows[i]
        IN /\ Records(row["sales_id"]) # {}
           /\ Matches(row) = {} =>
                 /\ Cardinality(Records(row["sales_id"])) = 1
                 /\ \A k \in Records(row["sales_id"]) :
                       /\ IsNull(hRet.df.rows[k]["category"])
                       /\ IsNull(hRet.df.rows[k]["brand"])
                       /\ IsNull(hRet.df.rows[k]["rating"])
                       /\ hRet.df.rows[k]["is_in_stock"] = Some(FALSE)

C13_Witness ==
    /\ TReturned
    /\ Len(hArgs.products_df.rows) > 0
    /\ Len(hRet.df.rows) = 2
    /\ IsNull(hRet.df.rows[1]["category"]) /\ hRet.df.rows[1]["is_in_stock"] = Some(FALSE)
    /\ hRet.df.rows[1]["product_id"] = Some(2)
    /\ hRet.df.rows[2]["category"] = Some("A")

(* ====================================================================== *)
(*                   claims on the validators, continued                  *)
(* ====================================================================== *)
(* The columns of the clean schema that may not be null, and a record     *)
(* within the three ranges the schema checks (discount in 1/DiscOne).     *)
RequiredClean == {h \in Range(final_columns) : h # "rating"}
Complete(row) == \A h \in RequiredClean : ~IsNull(row[h])
InRanges(row) ==
    /\ 0 <= Val(row["sale_hour"]) /\ Val(row["sale_hour"]) <= 23
    /\ 0 <= Val(row["discount"]) /\ Val(row["discount"]) <= DiscOne
    /\ Val(row["qty"]) > 0

(* C14: whenever the output gate returns, a record with sale_hour outside *)
(* 0..23, discount outside [0, 1] or qty <= 0 is not in the cleaned       *)
(* batch, and a record within the three ranges, bounds included, with no  *)
(* required value missing is in it.                                       *)
C14_InclusiveRanges ==
    (Returned /\ hCallee = "validate_sales_clean") =>
      \A i \in 1..Len(hArgs.df.rows) :
        LET row == hArgs.df.rows[i]
            kept == hArgs.df.index[i] \in Range(hRet.df.index)
        IN Complete(row) => (kept <=> InRanges(row))

C14_Witness ==
    /\ Returned /\ hCallee = "validate_sales_clean"
    /\ Len(hArgs.df.rows) = 2 /\ Len(hRet.df.rows) = 1
    /\ \E i \in 1..2 : hArgs.df.rows[i]["sale_hour"] = Some(25)
    /\ hRet.df.rows[1]["sale_hour"] \in {Some(0), Some(23)}
    /\ hRet.df.rows[1]["discount"] \in {Some(0), Some(DiscOne)}

(* ====================================================================== *)
(*               claims on the transform's columns and inputs             *)
(* ====================================================================== *)
(* Both batches have at least the columns their schemas name. *)
RequiredColumnsPresent ==
    /\ Range(SalesColumns) \subseteq Range(hArgs.sales_df.columns)
    /\ Range(ProductColumns) \subseteq Range(hArgs.products_df.columns)

(* C15 (as claimed): for batches that have at least the required columns, *)
(* whatever other columns they have, the transform finds every column it  *)
(* selects and the batch it returns has exactly the final columns, in     *)
(* their order.                                                           *)
C15_StableColumns ==
    (Transformed /\ RequiredColumnsPresent) =>
        /\ hRet.raised # "KeyError"
        /\ hRet.raised = "none" => hRet.df.columns = final_columns

(* C16 (as claimed): the transform reads both batches under normalized   *)
(* headers, so a call gives what the call on the two batches with their   *)
(* headers already normalized gives; and normalizing a normalized header  *)
(* changes nothing.                                                       *)
C16_BothHeadersNormalized ==
    Transformed =>
        /\ \E downcasts \in BOOLEAN :
              LET same == transform_sales_and_products(
                              RenameColumns(hArgs.sales_df, NormalizeHeader),
                              RenameColumns(hArgs.products_df, NormalizeHeader),
                              downcasts)
              IN hRet.raised = same.raised /\ hRet.df = same.df
        /\ \A h \in Range(hArgs.sales_df.columns) \cup Range(hArgs.products_df.columns) :
              NormalizeHeader(NormalizeHeader(h)) = NormalizeHeader(h)

(* The cell values of a frame, row by row, in column order. *)
Cells(df) == [k \in 1..Len(df.rows) |-> [i \in 1..Len(df.columns) |-> df.rows[k][df.columns[i]]]]

(* C17 (as claimed): when the transform has returned or raised, the sales *)
(* frame its caller passed has the headers, rows and cells it had before  *)
(* the call.                                                              *)
C17_CallerFrameUntouched ==
    Transformed =>
        /\ hRet.sales_df.columns = hArgs.sales_df.columns
        /\ Cells(hRet.sales_df) = Cells(hArgs.sales_df)
        /\ hRet.sales_df.index = hArgs.sales_df.index

(* ====================================================================== *)
(*                     claims on the DAG run, continued                   *)
(* ====================================================================== *)
(* What each stage gives for the raw objects of this run, computed once.  *)
Extracted == extract_sales_and_products(raw)

(* The state of a task that only computes, given what it computes. *)
Settled(t, expected) ==
    Attempted(t) =>
        IF expected.raised = "none"
        THEN Succeeded(t) /\ xcom[t] = expected.value
        ELSE Raised(t)

C19_OneRecordPerMatch ==
    TReturned =>
        /\ \A i \in InputRows(Survives) :
              LET row == SalesIn.rows[i]
                  recs == Records(row["sales_id"])
              IN /\ Cardinality(recs) =
                       IF Matches(row) = {} THEN 1 ELSE Cardinality(Matches(row))
                 /\ \A j \in Matches(row) :
                       \E k \in recs :
                          /\ hRet.df.rows[k]["category"] = hArgs.products_df.rows[j]["category"]
                          /\ hRet.df.rows[k]["brand"] = hArgs.products_df.rows[j]["brand"]
        /\ UniqueProductIds => Len(hRet.df.rows) = Cardinality(InputRows(Survives))

C19_Witness ==
    /\ TReturned
    /\ Len(SalesIn.rows) = 1 /\ Len(hRet.df.rows) = 2
    /\ hRet.df.rows[1]["sales_id"] = hRet.df.rows[2]["sales_id"]
    /\ hRet.df.rows[1]["category"] # hRet.df.rows[2]["category"]
    /\ ~UniqueProductIds

(* C20: on batches with the schemas' columns, when no sales row passes    *)
(* the filters (or there is no sales row at all) the transform does not   *)
(* raise: it returns a batch of the final columns with 0 records, which   *)
(* only the output gate's task then refuses.                              *)
C20_EmptyResultIsValid ==
    (Transformed /\ PlainCall /\ InputRows(Survives) = {}) =>
        /\ hRet.raised = "none"
        /\ Len(hRet.df.rows) = 0
        /\ hRet.df.columns = final_columns
        /\ validate_and_load(hRet.df, TRUE).raised # "none"

C20_Witness ==
    /\ TReturned /\ PlainCall
    /\ Len(SalesIn.rows) = 2 /\ Len(hRet.df.rows) = 0
    /\ SalesIn.rows[1]["order_status"] = Some("Completed")
    /\ SalesIn.rows[2]["order_status"] = Some("Pending")

(* ====================================================================== *)
(*                    claims on the validators, continued                 *)
(* ====================================================================== *)
HasUnknownColumn(df) == ~(Range(df.columns) \subseteq Range(final_columns))

IsBoolean(cell) == cell \in {Some(TRUE), Some(FALSE)}
InStockOrFalse(product) ==
    IF IsNull(product["in_stock"]) THEN Some(FALSE) ELSE product["in_stock"]

(* C22: in every record the transform returns, is_discounted and         *)
(* is_in_stock are booleans, not null; is_discounted is true exactly when *)
(* the sales row's discount, null taken as 0, is above 0; is_in_stock is  *)
(* false when no product row has the sales row's product_id, and is       *)
(* otherwise the in_stock, null taken as false, of the product row the    *)
(* record's category, brand and rating come from.                         *)
C22_BusinessFlags ==
    TReturned =>
      LET in == SalesIn.rows
          products == hArgs.products_df.rows
      IN \A k \in 1..Len(hRet.df.rows) :
           LET rec == hRet.df.rows[k]
           IN /\ IsBoolean(rec["is_discounted"]) /\ IsBoolean(rec["is_in_stock"])
              /\ rec["is_discounted"] = Some(Val(rec["discount"]) > 0)
              /\ \A i \in Origins(rec) :
                    /\ rec["is_discounted"] = Some(DiscountOr0(in[i]) > 0)
                    /\ IF Matches(in[i]) = {}
                       THEN rec["is_in_stock"] = Some(FALSE)
                       ELSE \E j \in Matches(in[i]) :
                               /\ rec["category"] = products[j]["category"]
                               /\ rec["brand"] = products[j]["brand"]
                               /\ rec["rating"] = products[j]["rating"]
                               /\ rec["is_in_stock"] = InStockOrFalse(products[j])

C22_Witness ==
    /\ TReturned
    /\ Len(hRet.df.rows) = 2
    /\ hRet.df.rows[1]["is_discounted"] = Some(TRUE)
    /\ hRet.df.rows[1]["is_in_stock"] = Some(TRUE)
    /\ hRet.df.rows[2]["category"] = Some("C")
    /\ hRet.df.rows[2]["is_in_stock"] = Some(FALSE)
    /\ \E j \in 1..Len(hArgs.products_df.rows) :
          /\ hArgs.products_df.rows[j]["category"] = Some("C")
          /\ IsNull(hArgs.products_df.rows[j]["in_stock"])


(* ====================================================================== *)
(*                   claims on the order of the DAG's tasks               *)
(* ====================================================================== *)
Before(t) == {TaskOrder[i] : i \in 1..(TaskPos(t) - 1)}

(* C23: in a run a task is attempted only when every task before it in    *)
(* the order extract, validate_inputs, transform, validate_and_load,      *)
(* prepare_snowflake, load_to_snowflake has succeeded; so while            *)
(* validate_and_load (output gate and S3 write) has not succeeded the     *)
(* Snowflake load is not attempted and never called; and every batch the  *)
(* S3 write was called with is the batch the output gate returned for the *)
(* transform's result.                                                    *)
C23_LinearOrder ==
    /\ \A t \in Tasks : Attempted(t) => \A u \in Before(t) : Succeeded(u)
    /\ ~Succeeded("validate_and_load") =>
          /\ ~Attempted("prepare_snowflake") /\ ~Attempted("load_to_snowflake")
          /\ load_calls = 0 /\ sales_clean_table = <<>>
    /\ writes # <<>> =>
          LET gate == validate_sales_clean(xcom["transform"])
          IN /\ Succeeded("transform") /\ gate.raised = "none"
             /\ \A k \in 1..Len(writes) : writes[k] = gate.df

C23_Witness ==
    /\ \A t \in Tasks : Succeeded(t)
    /\ tries["validate_and_load"] = 2 /\ Len(writes) = 2
    /\ Len(xcom["transform"].rows) = 2 /\ Len(writes[1].rows) = 1
    /\ tries["prepare_snowflake"] = 2
    /\ load_calls = 1 /\ Len(sales_clean_table) = 1


(* ====================================================================== *)
(*                 claims on retries and the end of a run                 *)
(* ====================================================================== *)
After(t) == {TaskOrder[i] : i \in (TaskPos(t) + 1)..Len(TaskOrder)}

RunSucceeded == \A t \in Tasks : Succeeded(t)
RunFailed ==
    \E t \in Tasks :
        /\ tstate[t] = "failed"
        /\ \A u \in Before(t) : Succeeded(u)
        /\ \A d \in After(t) : tstate[d] = "upstream_failed"
RunOver == RunSucceeded \/ RunFailed

AtMostThreeAttempts == \A t \in Tasks : tries[t] <= retries + 1
FailedTaskStopsTheRun ==
    \A t \in Tasks :
        tstate[t] = "failed" =>
            /\ tries[t] = retries + 1
            /\ \A d \in After(t) :
                  tries[d] = 0 /\ tstate[d] \in {"none", "upstream_failed"}

(* C24: in a run no task is attempted more than retries + 1 = 3 times; a  *)
(* task is failed only on its third failed attempt, and then no task      *)
(* after it is ever attempted; and under the scheduler every run reaches, *)
(* and stays in, the state where all tasks succeeded or one task failed   *)
(* and all tasks after it were skipped.                                   *)
C24_RetriesAndTermination ==
    /\ []AtMostThreeAttempts
    /\ []FailedTaskStopsTheRun
    /\ <>[]RunOver

C24_Witness ==
    /\ tstate["validate_and_load"] = "failed" /\ tries["validate_and_load"] = retries + 1
    /\ tries["extract"] = retries + 1 /\ Succeeded("extract")
    /\ Len(writes) = retries + 1
    /\ tstate["prepare_snowflake"] = "upstream_failed"
    /\ tstate["load_to_snowflake"] = "upstream_failed"
    /\ RunFailed


(* ====================================================================== *)
(*             claims on the validators: column-level failures            *)
(* ====================================================================== *)
OnlyColumnLevel(failed) == failed # {} /\ \A e \in failed : IsNull(e.index)

(* C25: when the report of the lazy pass is not empty and none of its     *)
(* entries carries a row index, the validator returns the input's rows    *)
(* unchanged with a count above 0.                                        *)
C25_ColumnLevelCounted ==
    (Validated /\ OnlyColumnLevel(FirstPass(hCallee, hArgs.df))) =>
        /\ hRet.raised = "none"
        /\ hRet.df.rows = hArgs.df.rows
        /\ hRet.count > 0


(* ====================================================================== *)
(*               claims on the input gate and the transform               *)
(* ====================================================================== *)
(* The call's sales batch is one the input gate lets through as it is,    *)
(* counting nothing.                                                      *)
PassedInputGate == validate_sales(hArgs.sales_df) = Return(hArgs.sales_df, 0)

PriceOrDiscountBad(row) == Val(row["price"]) <= 0 \/ DiscountOr0(row) = DiscOne

(* C26: in a sales batch the input gate lets through uncounted, every     *)
(* qty is above 0 and every non-null discount lies in [0, 1]; the filter  *)
(* of step 4.5 then removes exactly the rows with price <= 0 or           *)
(* discount = 1, and when the transform returns, a Completed row is       *)
(* missing from the result exactly when its price <= 0 or its             *)
(* discount = 1.                                                          *)
C26_GateThenFinancialFilter ==
    (Transformed /\ PassedInputGate) =>
      LET in == SalesIn
          priced == compute_revenue(parse_timestamps(normalize_region(
                        completed_orders(in))))
          kept == quality_filter(priced)
      IN /\ \A i \in 1..Len(in.rows) :
               /\ Val(in.rows[i]["qty"]) > 0
               /\ DiscountOr0(in.rows[i]) \in 0..DiscOne
               /\ ~IsNull(in.rows[i]["price"])
         /\ SalesIds(kept.rows) =
               {r["sales_id"] : r \in {x \in Range(priced.rows) : ~PriceOrDiscountBad(x)}}
         /\ TReturned =>
               \A i \in 1..Len(in.rows) :
                  in.rows[i]["order_status"] = Some("Completed") =>
                     (Records(in.rows[i]["sales_id"]) = {} <=> PriceOrDiscountBad(in.rows[i]))

C26_Witness ==
    /\ TReturned /\ PassedInputGate
    /\ Len(SalesIn.rows) = 2 /\ Len(hRet.df.rows) = 0
    /\ SalesIn.rows[1]["discount"] = Some(DiscOne) /\ SalesIn.rows[1]["price"] = Some(3)
    /\ SalesIn.rows[2]["price"] = Some(-1) /\ SalesIn.rows[2]["discount"] = Some(0)
    /\ \A i \in 1..2 : SalesIn.rows[i]["order_status"] = Some("Completed")


(* ====================================================================== *)
(*               claims on the transform and the output gate              *)
(* ====================================================================== *)
(* The record comes from a sales row whose product_id no product row has. *)
Unmatched(rec) == \E i \in Origins(rec) : Matches(SalesIn.rows[i]) = {}

(* C27: a record the transform returns for a sales row without a product  *)
(* has null category and brand; the output gate's report has an entry for *)
(* each of the two under that record's index, so the record is counted    *)
(* and is not in the batch the gate is left with; whenever the gate       *)
(* returns, the record is not in the batch it returns and the count       *)
(* includes its entries; and validate_and_load never calls the S3 write   *)
(* with a batch that holds it.                                            *)
C27_UnmatchedNeverPublished ==
    TReturned =>
      LET out == hRet.df
          report == FirstPass("validate_sales_clean", out)
          gate == validate_sales_clean(out)
      IN \A k \in 1..Len(out.rows) :
           Unmatched(out.rows[k]) =>
             /\ IsNull(out.rows[k]["category"]) /\ IsNull(out.rows[k]["brand"])
             /\ {Failure(Some(out.index[k]), h, "not_nullable") : h \in {"category", "brand"}}
                   \subseteq report
             /\ out.index[k] \notin Range(OutputCleaned(out).index)
             /\ gate.raised = "none" =>
                   /\ out.index[k] \notin Range(gate.df.index)
                   /\ out.rows[k] \notin Range(gate.df.rows)
                   /\ gate.count = Cardinality(report) /\ gate.count >= 2
             /\ \A s3_ok \in BOOLEAN :
                   \A w \in Range(validate_and_load(out, s3_ok).written) :
                      out.index[k] \notin Range(w.index) /\ out.rows[k] \notin Range(w.rows)

C27_Witness ==
    /\ TReturned
    /\ Len(hRet.df.rows) = 2
    /\ ~Unmatched(hRet.df.rows[1]) /\ Unmatched(hRet.df.rows[2])
    /\ validate_sales_clean(hRet.df).raised = "none"
    /\ validate_sales_clean(hRet.df).count = 2
    /\ validate_sales_clean(hRet.df).df.rows = <<hRet.df.rows[1]>>
    /\ validate_and_load(hRet.df, TRUE).written = <<validate_sales_clean(hRet.df).df>>


(* ====================================================================== *)
(*                        claims on the order of rows                     *)
(* ====================================================================== *)
(* Every row of out is the row of in with its label, and the rows of out  *)
(* follow one another as they do in in.                                   *)
LabelPos(df, label) == CHOOSE i \in 1..Len(df.index) : df.index[i] = label
OrderKept(in, out) ==
    /\ \A a \in 1..Len(out.rows) :
          /\ out.index[a] \in Range(in.index)
          /\ out.rows[a] = in.rows[LabelPos(in, out.index[a])]
    /\ \A a, b \in 1..Len(out.rows) :
          a < b => LabelPos(in, out.index[a]) < LabelPos(in, out.index[b])

(* The k-th smallest member of a set of positions. *)
Kth(S, k) == CHOOSE i \in S : Cardinality({j \in S : j < i}) = k - 1

(* C28: each validator, when it returns, returns rows of its input in the *)
(* order they have there (here: the input gate on the call's batches, the *)
(* output gate on the transform's result); the records the transform      *)
(* returns follow the order of the sales rows they come from; and when    *)
(* product_id is unique among the products, the k-th record comes from    *)
(* the k-th sales row that passes the filters.                            *)
C28_RowOrderKept ==
    Transformed =>
      LET in == SalesIn
          sales == validate_sales(hArgs.sales_df)
          products == validate_products(hArgs.products_df)
          surviving == InputRows(Survives)
      IN /\ sales.raised = "none" => OrderKept(hArgs.sales_df, sales.df)
         /\ products.raised = "none" => OrderKept(hArgs.products_df, products.df)
         /\ TReturned =>
               LET gate == validate_sales_clean(hRet.df)
               IN /\ gate.raised = "none" => OrderKept(hRet.df, gate.df)
                  /\ \A a, b \in 1..Len(hRet.df.rows) :
                        a < b => \A i \in Origins(hRet.df.rows[a]) :
                                    \A j \in Origins(hRet.df.rows[b]) : i <= j
                  /\ UniqueProductIds =>
                        /\ Len(hRet.df.rows) = Cardinality(surviving)
                        /\ \A k \in 1..Len(hRet.df.rows) :
                              hRet.df.rows[k]["sales_id"] =
                                  in.rows[Kth(surviving, k)]["sales_id"]

C28_Witness ==
    /\ TReturned /\ UniqueProductIds
    /\ Len(SalesIn.rows) = 3 /\ Len(hArgs.products_df.rows) = 3
    /\ validate_sales(hArgs.sales_df).df.index = <<0, 2>>
    /\ validate_products(hArgs.products_df).df.index = <<0, 2>>
    /\ Len(hRet.df.rows) = 2
    /\ hRet.df.rows[1]["sales_id"] = Some(1) /\ hRet.df.rows[1]["product_id"] = Some(2)
    /\ hRet.df.rows[2]["sales_id"] = Some(3) /\ hRet.df.rows[2]["product_id"] = Some(1)


(* ====================================================================== *)
(*                    claims on the Snowflake functions                   *)
(* ====================================================================== *)
SnowflakeCalled ==
    hPc = "done" /\ hCallee \in {"ensure_snowflake_infrastructure",
                                 "load_sales_clean_to_snowflake"}
SnowflakeLoaded ==
    hPc = "done" /\ hCallee = "load_sales_clean_to_snowflake" /\ hRet.raised = "none"

StatementAt(stmt, stmts) == {i \in 1..Len(stmts) : stmts[i] = stmt}

(* C29: an execution of load_sales_clean_to_snowflake with                *)
(* truncate_before_load that succeeds has sent TRUNCATE TABLE before its  *)
(* COPY INTO, and whatever executions went before, failed or not, it      *)
(* leaves in the table exactly the rows of the S3 file, once, and returns *)
(* their number.                                                          *)
C29_TruncateThenCopy ==
    (SnowflakeLoaded /\ hArgs.truncate_before_load) =>
        /\ StatementAt("COPY INTO", hRet.statements) # {}
        /\ \A j \in StatementAt("COPY INTO", hRet.statements) :
              \E i \in StatementAt("TRUNCATE TABLE", hRet.statements) : i < j
        /\ sales_clean_table = Val(s3_processed).lines
        /\ hRet.row_count = Len(Val(s3_processed).lines)

C29_Witness ==
    /\ SnowflakeLoaded /\ hArgs.truncate_before_load
    /\ load_calls = 2
    /\ Len(Val(s3_processed).lines) = 2
    /\ hRet.row_count = 2 /\ Len(sales_clean_table) = 2

CanCreateStage(args) ==
    Given(args.storage_integration) \/ (Given(args.aws_key_id) /\ Given(args.aws_secret_key))

(* The statements the called function sends for the same arguments when   *)
(* no stage is asked for and Snowflake accepts them all.                  *)
WithoutStage ==
    LET args == [hArgs EXCEPT !.create_stage = FALSE]
    IN IF hCallee = "ensure_snowflake_infrastructure"
       THEN ensure_snowflake_infrastructure(args, sales_clean_table, 0).statements
       ELSE load_sales_clean_to_snowflake(args, s3_processed, sales_clean_table, 0).statements

====
